---- MODULE Spec2Model ----
(***************************************************************************)
(* Model of the Video DownloadHelper content script (src/content.js): the  *)
(* VideoDetector instance guard, the XMLHttpRequest/fetch wrappers, the    *)
(* onMessage listener and the findVideos scan pipeline.                    *)
(*                                                                         *)
(* Strings are TLA+ strings (sequences of characters): URLs and script     *)
(* texts are kept as text and classified by the same substring and regex   *)
(* tests as the code.  An absent JavaScript property is the value          *)
(* Undefined.                                                              *)
(***************************************************************************)
EXTENDS Integers, Sequences, FiniteSets, TLC

(***************************************************************************)
(* Bounds of the model.                                                    *)
(***************************************************************************)
MaxInject == 2      \* executions of content.js in the page
MaxMessages == 1    \* messages delivered to the content script
MaxRequests == 2    \* XMLHttpRequest.open / fetch calls made by the page
MaxThrows == 1      \* exceptions thrown inside findVideos

Undefined == "<undefined>"

(***************************************************************************)
(* String helpers: String.prototype.includes / startsWith / endsWith /     *)
(* toLowerCase.                                                            *)
(***************************************************************************)
Includes(s, sub) ==
    \E i \in 1..(Len(s) - Len(sub) + 1) : SubSeq(s, i, i + Len(sub) - 1) = sub

StartsWith(s, p) == Len(s) >= Len(p) /\ SubSeq(s, 1, Len(p)) = p

EndsWith(s, p) == Len(s) >= Len(p) /\ SubSeq(s, Len(s) - Len(p) + 1, Len(s)) = p

LowerChar(c) ==
    CASE c = "A" -> "a" [] c = "B" -> "b" [] c = "C" -> "c" [] c = "D" -> "d"
      [] c = "E" -> "e" [] c = "F" -> "f" [] c = "G" -> "g" [] c = "H" -> "h"
      [] c = "I" -> "i" [] c = "J" -> "j" [] c = "K" -> "k" [] c = "L" -> "l"
      [] c = "M" -> "m" [] c = "N" -> "n" [] c = "O" -> "o" [] c = "P" -> "p"
      [] c = "Q" -> "q" [] c = "R" -> "r" [] c = "S" -> "s" [] c = "T" -> "t"
      [] c = "U" -> "u" [] c = "V" -> "v" [] c = "W" -> "w" [] c = "X" -> "x"
      [] c = "Y" -> "y" [] c = "Z" -> "z" [] OTHER -> c

\* character by character; the text is halved to keep the evaluation shallow
RECURSIVE ToLowerCase(_)
ToLowerCase(s) ==
    IF Len(s) = 0 THEN ""
    ELSE IF Len(s) = 1 THEN LowerChar(s)
    ELSE ToLowerCase(SubSeq(s, 1, Len(s) \div 2))
         \o ToLowerCase(SubSeq(s, Len(s) \div 2 + 1, Len(s)))

IsDigit(c) == c \in {"0", "1", "2", "3", "4", "5", "6", "7", "8", "9"}

\* JavaScript truthiness of a string-or-undefined property
Truthy(v) == v # Undefined /\ v # ""

(***************************************************************************)
(* URL classifier.                                                         *)
(***************************************************************************)
\* /segment-\d+/i
MatchesSegment(url) ==
    LET l == ToLowerCase(url) IN
    \E i \in 1..(Len(l) - 8) :
        SubSeq(l, i, i + 7) = "segment-" /\ IsDigit(SubSeq(l, i + 8, i + 8))

isStreamingUrl(url) ==
    IF ~Truthy(url) THEN FALSE
    ELSE IF Includes(url, ".m3u8") \/ Includes(url, "m3u8") THEN TRUE
    ELSE IF Includes(url, ".mpd") \/ Includes(url, "mpd") THEN TRUE
    ELSE LET l == ToLowerCase(url) IN
         \/ Includes(l, "/hls/")
         \/ Includes(l, "/dash/")
         \/ Includes(l, "/stream/")
         \/ Includes(l, "/manifest/")
         \/ Includes(l, "playlist.m3u8")
         \/ Includes(l, "master.m3u8")
         \/ Includes(l, "index.m3u8")
         \/ EndsWith(l, ".ts")
         \/ MatchesSegment(url)

\* a format label that ignores the URL
getStreamingFormatDefault(url) == "Stream"

getStreamingFormat(url) ==
    IF Includes(url, ".m3u8") \/ Includes(url, "m3u8") THEN "HLS"
    ELSE IF Includes(url, ".mpd") \/ Includes(url, "mpd") THEN "DASH"
    ELSE IF Includes(url, ".ts") THEN "TS"
    ELSE "Stream"

\* new URL(url).protocol for the absolute URLs of the model; "" when the
\* constructor throws (no scheme)
UrlProtocol(url) ==
    LET l == ToLowerCase(url) IN
    IF StartsWith(l, "https:") THEN "https:"
    ELSE IF StartsWith(l, "http:") THEN "http:"
    ELSE IF StartsWith(l, "blob:") THEN "blob:"
    ELSE IF StartsWith(l, "data:") THEN "data:"
    ELSE ""

videoExtensions == <<".mp4", ".webm", ".ogg", ".avi", ".mov", ".wmv", ".flv", ".mkv">>

videoMimePatterns == <<"video/", "mp4", "webm", "ogg">>

\* a check of the extension and MIME markers alone, whatever the scheme
isValidVideoUrlByContent(url) ==
    LET l == ToLowerCase(url) IN
    \/ \E i \in 1..Len(videoExtensions) : Includes(l, videoExtensions[i])
    \/ \E i \in 1..Len(videoMimePatterns) : Includes(l, videoMimePatterns[i])

isValidVideoUrl(url) ==
    IF UrlProtocol(url) = "" THEN FALSE
    ELSE IF UrlProtocol(url) \notin {"http:", "https:"} THEN FALSE
    ELSE IF StartsWith(url, "blob:") THEN FALSE
    ELSE IF StartsWith(url, "data:") THEN FALSE
    ELSE LET l == ToLowerCase(url)
             hasVideoExtension ==
                 \E i \in 1..Len(videoExtensions) : Includes(l, videoExtensions[i])
             hasVideoMime ==
                 \E i \in 1..Len(videoMimePatterns) : Includes(l, videoMimePatterns[i])
         IN hasVideoExtension \/ hasVideoMime

getVideoFormat(url) ==
    IF ~Truthy(url) THEN "Unknown"
    ELSE LET urlLower == ToLowerCase(url) IN
         IF Includes(urlLower, ".mp4") THEN "MP4"
         ELSE IF Includes(urlLower, ".webm") THEN "WebM"
         ELSE IF Includes(urlLower, ".ogg") THEN "OGG"
         ELSE IF Includes(urlLower, ".avi") THEN "AVI"
         ELSE IF Includes(urlLower, ".mov") THEN "MOV"
         ELSE IF Includes(urlLower, ".wmv") THEN "WMV"
         ELSE IF Includes(urlLower, ".flv") THEN "FLV"
         ELSE IF Includes(urlLower, ".mkv") THEN "MKV"
         ELSE IF Includes(urlLower, ".m3u8") THEN "HLS"
         ELSE IF Includes(urlLower, ".mpd") THEN "DASH"
         ELSE IF Includes(urlLower, ".ts") THEN "TS"
         ELSE IF StartsWith(urlLower, "blob:") THEN "Blob"
         ELSE "Video"

detectPlatform(hostname) ==
    LET h == ToLowerCase(hostname) IN
    IF Includes(h, "tiktok.com") THEN "tiktok"
    ELSE IF Includes(h, "facebook.com") \/ Includes(h, "fb.com") THEN "facebook"
    ELSE IF Includes(h, "youtube.com") \/ Includes(h, "youtu.be") THEN "youtube"
    ELSE IF Includes(h, "instagram.com") THEN "instagram"
    ELSE IF Includes(h, "twitter.com") \/ Includes(h, "x.com") THEN "twitter"
    ELSE IF Includes(h, "twitch.tv") THEN "twitch"
    ELSE "generic"

(***************************************************************************)
(* Manifest scanner: extractStreamingUrlsFromText.  Each regular           *)
(* expression of the code is matched as RegExp.prototype.exec matches it   *)
(* with the g and i flags: leftmost start, greedy classes, next search     *)
(* from the end of the previous match.                                     *)
(***************************************************************************)
Whitespace == {" ", "\t", "\n", "\r"}

\* the characters excluded by the class [^\s"']
BareStops == Whitespace \cup {"\"", "'"}

\* length of the match of https?:\/\/ at position i of the lower-cased text
HttpPrefixLen(l, i) ==
    IF i + 7 <= Len(l) /\ SubSeq(l, i, i + 7) = "https://" THEN 8
    ELSE IF i + 6 <= Len(l) /\ SubSeq(l, i, i + 6) = "http://" THEN 7
    ELSE 0

\* last position of the longest run of characters outside stops from p on
RunEnd(s, p, stops) ==
    LET at == {k \in p..Len(s) : SubSeq(s, k, k) \in stops} IN
    IF at = {} THEN (IF p > Len(s) THEN p - 1 ELSE Len(s))
    ELSE (CHOOSE k \in at : \A k2 \in at : k <= k2) - 1

\* /https?:\/\/[^\s"']+MARK[^\s"']*/gi at position i: end of the match, or 0
MatchBareAt(s, l, i, mark) ==
    LET n == HttpPrefixLen(l, i)
        p == i + n
        e == RunEnd(s, p, BareStops)
    IN IF n > 0 /\ e >= p + 1 /\ Includes(SubSeq(l, p + 1, e), mark) THEN e ELSE 0

\* the matches of successive exec calls from lastIndex = from on
RECURSIVE ExecAllBare(_, _, _, _)
ExecAllBare(s, l, from, mark) ==
    LET starts == {i \in from..Len(s) : MatchBareAt(s, l, i, mark) > 0}
        i0 == CHOOSE i \in starts : \A i2 \in starts : i <= i2
        e == MatchBareAt(s, l, i0, mark)
    IN IF starts = {} THEN <<>>
       ELSE <<SubSeq(s, i0, e)>> \o ExecAllBare(s, l, e + 1, mark)

\* /Q(https?:\/\/[^Q]*(?:m3u8|mpd)[^Q]*)Q/gi at position i, Q a quote
\* character: position of the closing quote, or 0
MatchQuotedAt(s, l, i, q) ==
    LET n == HttpPrefixLen(l, i + 1)
        p == i + 1 + n
        e == RunEnd(s, p, {q})
    IN IF /\ SubSeq(s, i, i) = q
          /\ n > 0
          /\ e + 1 <= Len(s)
          /\ e >= p
          /\ (Includes(SubSeq(l, p, e), "m3u8") \/ Includes(SubSeq(l, p, e), "mpd"))
       THEN e + 1 ELSE 0

\* the capture group match[1] of every match
RECURSIVE ExecAllQuoted(_, _, _, _)
ExecAllQuoted(s, l, from, q) ==
    LET starts == {i \in from..Len(s) : MatchQuotedAt(s, l, i, q) > 0}
        i0 == CHOOSE i \in starts : \A i2 \in starts : i <= i2
        c == MatchQuotedAt(s, l, i0, q)
    IN IF starts = {} THEN <<>>
       ELSE <<SubSeq(s, i0 + 1, c - 1)>> \o ExecAllQuoted(s, l, c + 1, q)

\* url.replace(/['"]/g, '')
RECURSIVE StripQuotes(_)
StripQuotes(s) ==
    IF Len(s) = 0 THEN ""
    ELSE IF Len(s) = 1 THEN (IF s \in {"\"", "'"} THEN "" ELSE s)
    ELSE StripQuotes(SubSeq(s, 1, Len(s) \div 2))
         \o StripQuotes(SubSeq(s, Len(s) \div 2 + 1, Len(s)))

\* [...new Set(urls)]: first occurrences, in insertion order
RECURSIVE Uniq(_)
Uniq(seq) ==
    IF Len(seq) = 0 THEN <<>>
    ELSE LET init == Uniq(SubSeq(seq, 1, Len(seq) - 1))
             last == seq[Len(seq)]
         IN IF \E i \in 1..Len(init) : init[i] = last THEN init ELSE Append(init, last)

RECURSIVE KeepStreaming(_)
KeepStreaming(matches) ==
    IF Len(matches) = 0 THEN <<>>
    ELSE (IF Truthy(matches[1]) /\ isStreamingUrl(matches[1])
          THEN <<StripQuotes(matches[1])>> ELSE <<>>)
         \o KeepStreaming(Tail(matches))

extractStreamingUrlsFromText(text) ==
    LET l == ToLowerCase(text) IN
    Uniq(KeepStreaming(ExecAllBare(text, l, 1, ".m3u8")
                       \o ExecAllBare(text, l, 1, ".mpd")
                       \o ExecAllBare(text, l, 1, "/hls/")
                       \o ExecAllBare(text, l, 1, "/dash/")
                       \o ExecAllQuoted(text, l, 1, "\"")
                       \o ExecAllQuoted(text, l, 1, "'")))

(***************************************************************************)
(* JSON.parse for the embedded player data.  The texts of the model are    *)
(* objects whose values are strings or objects, without escape sequences   *)
(* (the documents of the model use no other JSON); a malformed or          *)
(* truncated text makes JSON.parse throw (ok = FALSE).  An object is the   *)
(* sequence of its <<key, value>> members.                                 *)
(***************************************************************************)
\* first position from i on that holds no whitespace
SkipWs(s, i) ==
    LET at == {k \in i..Len(s) : SubSeq(s, k, k) \notin Whitespace} IN
    IF at = {} THEN (IF i > Len(s) THEN i ELSE Len(s) + 1)
    ELSE CHOOSE k \in at : \A k2 \in at : k <= k2

JsonFail == [ok |-> FALSE, pos |-> 0, t |-> "none", str |-> "", members |-> <<>>]

JsonString(s, i) ==
    LET e == RunEnd(s, i + 1, {"\"", "\\"}) IN
    IF i <= Len(s) /\ SubSeq(s, i, i) = "\"" /\ e + 1 <= Len(s) /\ SubSeq(s, e + 1, e + 1) = "\""
    THEN [ok |-> TRUE, pos |-> e + 2, t |-> "string", str |-> SubSeq(s, i + 1, e), members |-> <<>>]
    ELSE JsonFail

RECURSIVE JsonValue(_, _), JsonMembers(_, _, _)
JsonValue(s, i0) ==
    LET i == SkipWs(s, i0) IN
    IF i > Len(s) THEN JsonFail
    ELSE IF SubSeq(s, i, i) = "\"" THEN JsonString(s, i)
    ELSE IF SubSeq(s, i, i) = "{" THEN
        LET j == SkipWs(s, i + 1) IN
        IF j <= Len(s) /\ SubSeq(s, j, j) = "}"
        THEN [ok |-> TRUE, pos |-> j + 1, t |-> "object", str |-> "", members |-> <<>>]
        ELSE JsonMembers(s, j, <<>>)
    ELSE JsonFail

\* members of an object from position i0 on, after acc; ends after the "}"
JsonMembers(s, i0, acc) ==
    LET k == JsonString(s, SkipWs(s, i0))
        c == SkipWs(s, k.pos)
        v == JsonValue(s, c + 1)
        d == SkipWs(s, v.pos)
        acc2 == Append(acc, <<k.str, v>>)
    IN IF ~k.ok \/ c > Len(s) \/ SubSeq(s, c, c) # ":" THEN JsonFail
       ELSE IF ~v.ok \/ d > Len(s) THEN JsonFail
       ELSE IF SubSeq(s, d, d) = "," THEN JsonMembers(s, d + 1, acc2)
       ELSE IF SubSeq(s, d, d) = "}"
            THEN [ok |-> TRUE, pos |-> d + 1, t |-> "object", str |-> "", members |-> acc2]
       ELSE JsonFail

\* JSON.parse(text): the whole text must be one value
JsonParse(text) ==
    LET v == JsonValue(text, 1) IN
    IF v.ok /\ SkipWs(text, v.pos) = Len(text) + 1 THEN v ELSE JsonFail

\* obj[key] of a parsed object: the last member of that name, or JsonFail
\* (ok = FALSE) for undefined
JsonGet(obj, key) ==
    LET idx == {i \in 1..Len(obj.members) : obj.members[i][1] = key} IN
    IF obj.t # "object" \/ idx = {} THEN JsonFail
    ELSE obj.members[CHOOSE i \in idx : \A j \in idx : j <= i][2]

\* truthiness of a parsed value: objects and non-empty strings
JsonTruthy(v) == v.ok /\ (v.t = "object" \/ v.str # "")

(***************************************************************************)
(* The document.  A video element has its resolved src ("" when it has no  *)
(* src attribute), the resolved src of each nested <source> in document    *)
(* order ("" for a source without src) and the set sel of the              *)
(* platform-specific CSS selectors that match it, and its title attribute. *)
(* title is document.title and caption the text of the first element that  *)
(* one of the title selectors of the page's platform finds ("" when there  *)
(* is none).  No element of these documents has a data-title or aria-label *)
(* attribute, or an ancestor with a title, a heading or a title class.     *)
(***************************************************************************)
UrlMp4 == "https://cdn.example.com/clip.mp4"
UrlWebm == "https://cdn.example.com/clip.webm"
UrlShort == "http://a.b/c.mp4"
UrlBlob == "blob:https://www.tiktok.com/1234-abcd"
UrlHls == "https://example.com/hls/master.m3u8"
UrlDash == "https://cdn.example.com/v/manifest.mpd"
UrlApi == "https://example.com/api/items.json"
UrlRel == "v.m3u8"

DocGeneric ==
    [hostname |-> "media.example.org", title |-> "", caption |-> "",
     videos |-> << [src |-> UrlMp4, sources |-> <<UrlWebm, UrlMp4>>, sel |-> {}, title |-> ""],
                   [src |-> "", sources |-> <<UrlShort, UrlWebm>>, sel |-> {}, title |-> ""] >>,
     scripts |-> << "var hls = 'https://example.com/hls/master.m3u8';" >>]

DocTikTok ==
    [hostname |-> "www.tiktok.com", title |-> "", caption |-> "",
     videos |-> << [src |-> UrlMp4, sources |-> <<>>, sel |-> {".video-player video"}, title |-> ""],
                   [src |-> UrlBlob, sources |-> <<>>, sel |-> {}, title |-> ""] >>,
     scripts |-> << "{playAddr:\"https://v.tiktok.example/a/index.m3u8\"}" >>]

DocYouTube ==
    [hostname |-> "www.youtube.com", title |-> "", caption |-> "",
     videos |-> << [src |-> UrlBlob, sources |-> <<>>,
                    sel |-> {".html5-video-player video", ".video-stream"}, title |-> ""] >>,
     scripts |-> << "var ytInitialPlayerResponse = {\"streamingData\":{\"hlsManifestUrl\":\"https://yt.example/hls/a.m3u8\",\"dashManifestUrl\":\"https://yt.example/dash/a\"}};",
                    "var ytInitialPlayerResponse = {\"streamingData\":{\"hlsManifestUrl\":" >>]

Docs == {DocGeneric, DocTikTok, DocYouTube}

\* Single-element pages: one script or one video element and nothing else.
UrlManifest == "https://example.com/hls/master.m3u8"

DocYouTubeScript ==
    [hostname |-> "www.youtube.com", title |-> "", caption |-> "",
     videos |-> <<>>,
     scripts |-> << "ytInitialPlayerResponse = {\"streamingData\":{\"hlsManifestUrl\":\"https://example.com/hls/master.m3u8\"}}" >>]

\* a manifest given by a relative address, in a statement the player-data
\* expression matches
DocYouTubeRelative ==
    [hostname |-> "www.youtube.com", title |-> "", caption |-> "",
     videos |-> <<>>,
     scripts |-> << "ytInitialPlayerResponse = {\"streamingData\":{\"hlsManifestUrl\":\"a.m3u8\"}};" >>]

DocSingleVideo ==
    [hostname |-> "media.example.org", title |-> "", caption |-> "",
     videos |-> << [src |-> UrlMp4, sources |-> <<>>, sel |-> {}, title |-> ""] >>,
     scripts |-> <<>>]

DocSingleShort ==
    [hostname |-> "media.example.org", title |-> "", caption |-> "",
     videos |-> << [src |-> UrlShort, sources |-> <<>>, sel |-> {}, title |-> ""] >>,
     scripts |-> <<>>]

DocTikTokBlob ==
    [hostname |-> "www.tiktok.com", title |-> "", caption |-> "",
     videos |-> << [src |-> UrlBlob, sources |-> <<>>, sel |-> {".video-player video"}, title |-> ""] >>,
     scripts |-> <<>>]

\* a watch page with a video file and four scripts that name the player
\* data: one whose object text is not JSON, one that assigns no object, one
\* that is well formed and one that is cut off
UrlPlayback == "https://yt.example/videoplayback/77"

DocYouTubeMalformed ==
    [hostname |-> "www.youtube.com", title |-> "", caption |-> "",
     videos |-> << [src |-> UrlMp4, sources |-> <<>>, sel |-> {}, title |-> ""] >>,
     scripts |-> << "var ytInitialPlayerResponse = {\"streamingData\":{\"hlsManifestUrl\":};",
                    "window.ytInitialPlayerResponse = null;",
                    "var ytInitialPlayerResponse = {\"streamingData\":{\"hlsManifestUrl\":\"https://yt.example/videoplayback/77\"}};",
                    "var ytInitialPlayerResponse = {\"streamingData\":{\"hlsManifestUrl\":\"https://yt.ex" >>]

\* a page of no known platform whose only video element has a blob address
UrlBlobGeneric == "blob:https://media.example.org/77aa-01"

DocGenericBlob ==
    [hostname |-> "media.example.org", title |-> "", caption |-> "",
     videos |-> << [src |-> UrlBlobGeneric, sources |-> <<>>, sel |-> {}, title |-> ""] >>,
     scripts |-> <<>>]

\* a watch page whose title has characters that file names cannot have
DocYouTubeTitled ==
    [hostname |-> "www.youtube.com", title |-> "Intro: what is a manifest? - YouTube",
     caption |-> "",
     videos |-> <<>>,
     scripts |-> << "var ytInitialPlayerResponse = {\"streamingData\":{\"hlsManifestUrl\":\"https://yt.example/videoplayback/77\"}};" >>]

\* a video element whose title attribute has a space as its 100th character
LongTitle ==
    "Lecture-012345678901234567890123456789012345678901234567890123456789012345678901234567890123456789x end of the recording"

DocLongTitle ==
    [hostname |-> "media.example.org", title |-> "", caption |-> "",
     videos |-> << [src |-> UrlMp4, sources |-> <<>>, sel |-> {}, title |-> LongTitle] >>,
     scripts |-> <<>>]

ScenarioDocs ==
    {DocYouTubeScript, DocYouTubeRelative, DocSingleVideo, DocSingleShort, DocTikTokBlob,
     DocYouTubeMalformed, DocGenericBlob, DocYouTubeTitled, DocLongTitle}

(***************************************************************************)
(* Titles.                                                                 *)
(***************************************************************************)
\* the characters of /[<>:"/\\|?*]/
InvalidFilenameChars == {"<", ">", ":", "\"", "/", "\\", "|", "?", "*"}

\* characters i..j of s, with every character of class replaced by to and
\* every run of whitespace by one space: .replace(class, to).replace(/\s+/g, ' ')
\* (the range is halved to keep the evaluation shallow)
RECURSIVE ReplaceAndCollapse(_, _, _, _, _)
ReplaceAndCollapse(s, i, j, class, to) ==
    IF i > j THEN ""
    ELSE IF i = j
    THEN LET c == SubSeq(s, i, i) IN
         IF c \in Whitespace
         THEN (IF i > 1 /\ SubSeq(s, i - 1, i - 1) \in Whitespace THEN "" ELSE " ")
         ELSE IF c \in class THEN to ELSE c
    ELSE ReplaceAndCollapse(s, i, (i + j) \div 2, class, to)
         \o ReplaceAndCollapse(s, (i + j) \div 2 + 1, j, class, to)

\* String.prototype.trim
Trim(s) ==
    LET Between(inked) ==
            IF inked = {} THEN ""
            ELSE SubSeq(s, CHOOSE k \in inked : \A k2 \in inked : k <= k2,
                           CHOOSE k \in inked : \A k2 \in inked : k2 <= k)
    IN Between({k \in 1..Len(s) : SubSeq(s, k, k) \notin Whitespace})

sanitizeTitle(title) ==
    LET Substring(t) == SubSeq(t, 1, IF Len(t) < 100 THEN Len(t) ELSE 100)
    IN Substring(Trim(ReplaceAndCollapse(title, 1, Len(title), InvalidFilenameChars, "_")))

\* new URL(url).pathname for the URLs of the model (no dot segments, no
\* character the parser would escape); Undefined when the constructor throws
UrlPathname(url) ==
    LET Cut(t) == LET Before(ends) ==
                          IF ends = {} THEN t
                          ELSE SubSeq(t, 1, (CHOOSE k \in ends : \A k2 \in ends : k <= k2) - 1)
                  IN Before({k \in 1..Len(t) : SubSeq(t, k, k) \in {"?", "#"}})
        After(prefix) == SubSeq(url, Len(prefix) + 1, Len(url))
        FromSlash(t) == LET From(at) ==
                                IF at = {} THEN "/"
                                ELSE SubSeq(t, CHOOSE k \in at : \A k2 \in at : k <= k2, Len(t))
                        IN From({k \in 1..Len(t) : SubSeq(t, k, k) = "/"})
        Pathname(protocol) ==
            IF protocol = "" THEN Undefined
            ELSE Cut(IF protocol \in {"http:", "https:"}
                     THEN FromSlash(After(protocol \o "//"))
                     ELSE After(protocol))
    IN IF ~Truthy(url) THEN Undefined ELSE Pathname(UrlProtocol(url))

\* pathname.split('/'), in order
RECURSIVE SplitPath(_)
SplitPath(path) ==
    LET Split(at) ==
            IF at = {} THEN <<path>>
            ELSE LET Around(k) == <<SubSeq(path, 1, k - 1)>>
                                  \o SplitPath(SubSeq(path, k + 1, Len(path)))
                 IN Around(CHOOSE x \in at : \A y \in at : x <= y)
    IN Split({k \in 1..Len(path) : SubSeq(path, k, k) = "/"})

extractTitleFromUrl(url) ==
    LET Name(filename) ==
            LET UpTo(dots) ==
                    IF dots = {} THEN ""
                    ELSE LET Stem(last) == IF last < Len(filename)
                                           THEN SubSeq(filename, 1, last - 1)
                                           ELSE filename
                         IN Stem(CHOOSE k \in dots : \A k2 \in dots : k2 <= k)
            IN UpTo({k \in 1..Len(filename) : SubSeq(filename, k, k) = "."})
        Pop(parts) == Name(parts[Len(parts)])
        FromPathname(pathname) ==
            IF pathname = Undefined THEN "" ELSE Pop(SplitPath(pathname))
    IN FromPathname(UrlPathname(url))

\* Date.now(): a run of digits
DateNow == "1762214400000"

\* source is Undefined when the element alone is passed
extractVideoTitle(video, source) ==
    LET Title(fromUrl) == IF video.title # "" THEN video.title
                          ELSE IF fromUrl # "" THEN fromUrl
                          ELSE "Video " \o DateNow
    IN sanitizeTitle(Title(extractTitleFromUrl(IF Truthy(video.src) THEN video.src
                                               ELSE source)))

PlatformVideoName(platform) ==
    CASE platform = "tiktok" -> "TikTok Video"
      [] platform = "facebook" -> "Facebook Video"
      [] platform = "youtube" -> "YouTube Video"
      [] platform = "instagram" -> "Instagram Video"
      [] platform = "twitter" -> "Twitter Video"
      [] platform = "twitch" -> "Twitch Video"

\* extractTikTokTitle ... extractTwitchTitle are one loop over the title
\* selectors of the platform, which differ only in the selectors
extractPlatformTitle(d, video, platform) ==
    LET Caption(text) == IF text # "" THEN sanitizeTitle(text)
                         ELSE PlatformVideoName(platform)
    IN IF platform \in {"tiktok", "facebook", "youtube", "instagram", "twitter", "twitch"}
       THEN Caption(Trim(d.caption))
       ELSE extractVideoTitle(video, Undefined)

extractTitleFromStreamingUrl(url, platform) ==
    LET Segment(part) ==
            LET Ends(l) == EndsWith(l, ".m3u8") \/ EndsWith(l, ".mpd") \/ EndsWith(l, ".ts")
            IN Ends(ToLowerCase(part))
        Clean(part) == sanitizeTitle(ReplaceAndCollapse(part, 1, Len(part), {"-", "_"}, " "))
        Last(pathParts) ==
            LET Pick(good) ==
                    IF good = {} THEN platform \o " Stream"
                    ELSE Clean(pathParts[CHOOSE i \in good : \A j \in good : j <= i])
            IN Pick({i \in 1..Len(pathParts) :
                        ~Segment(pathParts[i]) /\ Len(pathParts[i]) > 3})
        FromPathname(pathname) ==
            IF pathname = Undefined THEN platform \o " Stream"
            ELSE Last(SelectSeq(SplitPath(pathname), LAMBDA part : part # ""))
    IN FromPathname(UrlPathname(url))

(***************************************************************************)
(* Candidates.  Every candidate record has the same fields; a property     *)
(* the code does not set is Undefined (isStreaming: FALSE).                *)
(***************************************************************************)
NoCandidateFields ==
    [src |-> Undefined, url |-> Undefined, type |-> Undefined, platform |-> Undefined,
     format |-> Undefined, size |-> Undefined, isStreaming |-> FALSE,
     downloadable |-> Undefined, reason |-> Undefined, alternative |-> Undefined,
     title |-> Undefined]

RECURSIVE Flatten(_)
Flatten(seqs) ==
    IF Len(seqs) = 0 THEN <<>> ELSE Head(seqs) \o Flatten(Tail(seqs))

findDirectVideoElements(d) ==
    Flatten([i \in 1..Len(d.videos) |->
        LET video == d.videos[i] IN
        IF Truthy(video.src) /\ isValidVideoUrl(video.src)
        THEN << [NoCandidateFields EXCEPT !.src = video.src, !.type = "direct",
                     !.title = extractVideoTitle(video, Undefined)] >>
        ELSE <<>>])

findSourceElements(d) ==
    Flatten([i \in 1..Len(d.videos) |->
        LET video == d.videos[i] IN
        Flatten([j \in 1..Len(video.sources) |->
            LET source == video.sources[j] IN
            IF Truthy(source) /\ isValidVideoUrl(source)
            THEN << [NoCandidateFields EXCEPT !.src = source, !.type = "source",
                         !.title = extractVideoTitle(video, source)] >>
            ELSE <<>>])])

PlatformSelectors(platform) ==
    CASE platform = "tiktok" ->
            << "video[src]", "video source[src]", "[data-e2e=\"browse-video\"] video",
               ".video-player video", ".feed-video video",
               "div[data-e2e=\"feed-item\"] video" >>
      [] platform = "facebook" ->
            << "video[src]", "video source[src]", "[data-pagelet=\"FeedUnit\"] video",
               "[data-pagelet=\"VideoPlayerRoot\"] video", ".story-bucket-current video",
               "[role=\"main\"] video" >>
      [] platform = "youtube" ->
            << "video[src]", "video source[src]", ".html5-video-player video",
               "#movie_player video", ".video-stream" >>
      [] platform = "instagram" ->
            << "video[src]", "video source[src]", "article video",
               "[role=\"presentation\"] video" >>
      [] platform = "twitter" ->
            << "video[src]", "video source[src]", "[data-testid=\"videoPlayer\"] video",
               ".media-container video" >>
      [] platform = "twitch" ->
            << "video[src]", "video source[src]", ".video-player video",
               "[data-a-target=\"player-overlay-click-handler\"] video" >>
      [] OTHER -> <<>>

\* element.src || (element.querySelector('source') && element.querySelector('source').src)
\* for every element document.querySelectorAll(selector) returns, in order
SelectedSrcs(d, selector) ==
    Flatten([i \in 1..Len(d.videos) |->
        LET video == d.videos[i]
            first == IF Len(video.sources) > 0 THEN video.sources[1] ELSE ""
            resolved == IF Truthy(video.src) THEN video.src ELSE first
        IN IF selector = "video[src]"
           THEN (IF Truthy(video.src) THEN <<video.src>> ELSE <<>>)
           ELSE IF selector = "video source[src]"
           THEN SelectSeq(video.sources, Truthy)
           ELSE IF selector \in video.sel THEN <<resolved>> ELSE <<>>])

PlatformSelectorVideos(d, platform) ==
    LET selectors == PlatformSelectors(platform) IN
    Flatten([k \in 1..Len(selectors) |->
        LET srcs == SelectedSrcs(d, selectors[k]) IN
        Flatten([i \in 1..Len(srcs) |->
            IF Truthy(srcs[i]) /\ isValidVideoUrl(srcs[i])
            THEN << [NoCandidateFields EXCEPT !.url = srcs[i], !.type = platform,
                         !.format = getVideoFormat(srcs[i]), !.size = "Unknown",
                         !.title = extractPlatformTitle(d, Undefined, platform)] >>
            ELSE <<>>])])

\* a blob candidate pushed without its explanation
BlobReasonMissing == ""

\* the reason and alternative texts of findBlobVideos, without diacritics
BlobReason ==
    "Blob URLs khong the tai xuong truc tiep tu extension. Hay thu right-click va \"Save video as...\" tren video."

BlobAlternative == "Su dung browser's built-in save feature hoac screen recording tools"

\* a platform pass that does not look for blob addresses
findNoBlobVideos(d, platform) == <<>>

findBlobVideos(d, platform) ==
    Flatten([i \in 1..Len(d.videos) |->
        LET video == d.videos[i] IN
        IF Truthy(video.src) /\ StartsWith(video.src, "blob:")
        THEN << [NoCandidateFields EXCEPT !.url = video.src, !.type = platform \o "_blob",
                     !.format = "blob", !.size = "Unknown", !.downloadable = "false",
                     !.reason = BlobReason, !.alternative = BlobAlternative,
                     !.title = extractPlatformTitle(d, video, platform)] >>
        ELSE <<>>])

findPlatformSpecificVideos(d, platform) ==
    IF platform \in {"tiktok", "facebook", "youtube", "instagram", "twitter", "twitch"}
    THEN PlatformSelectorVideos(d, platform) \o findBlobVideos(d, platform)
    ELSE <<>>

(***************************************************************************)
(* Streaming candidates: the observed URLs, the script scan and the        *)
(* platform extractors.                                                    *)
(***************************************************************************)
StreamingCandidate(url, platform) ==
    LET Titled(format, title) ==
            [NoCandidateFields EXCEPT !.url = url, !.type = "streaming",
                 !.platform = platform, !.format = format, !.size = "Unknown",
                 !.isStreaming = TRUE,
                 !.title = IF title # "" THEN title
                           ELSE platform \o " " \o format \o " Stream"]
    IN Titled(getStreamingFormat(url), extractTitleFromStreamingUrl(url, platform))

StreamingCandidatesOf(urls, platform) ==
    [i \in 1..Len(urls) |-> StreamingCandidate(urls[i], platform)]

LineTerminators == {"\n", "\r"}

\* script.textContent.match(/ytInitialPlayerResponse\s*=\s*({.+?});/): the
\* capture group of the leftmost match, "" when there is no match
YtPlayerDataMatch(text) ==
    LET name == "ytInitialPlayerResponse"
        \* position of the closing brace of the match starting at i, or 0
        CloseAt(i) ==
            LET a == SkipWs(text, i + Len(name))
                b == SkipWs(text, a + 1)
                ends == {k \in (b + 2)..(Len(text) - 1) : SubSeq(text, k, k + 1) = "};"}
                k0 == CHOOSE k \in ends : \A k2 \in ends : k <= k2
            IN IF /\ i + Len(name) - 1 <= Len(text)
                  /\ SubSeq(text, i, i + Len(name) - 1) = name
                  /\ a <= Len(text) /\ SubSeq(text, a, a) = "="
                  /\ b <= Len(text) /\ SubSeq(text, b, b) = "{"
                  /\ ends # {}
                  /\ \A j \in (b + 1)..(k0 - 1) : SubSeq(text, j, j) \notin LineTerminators
               THEN k0 ELSE 0
        starts == {i \in 1..Len(text) : CloseAt(i) > 0}
        i0 == CHOOSE i \in starts : \A i2 \in starts : i <= i2
    IN IF starts = {} THEN ""
       ELSE SubSeq(text, SkipWs(text, SkipWs(text, i0 + Len(name)) + 1), CloseAt(i0))

\* the url property pushed for a manifest field: a string value, or a
\* non-string object, which has no length and no text (Undefined)
ManifestUrl(v) == IF v.t = "string" THEN v.str ELSE Undefined

\* document.title.replace(' - YouTube', ''): the first occurrence removed
PageTitle(d) ==
    LET mark == " - YouTube"
        at == {k \in 1..(Len(d.title) - Len(mark) + 1) :
                  SubSeq(d.title, k, k + Len(mark) - 1) = mark}
        k0 == CHOOSE k \in at : \A k2 \in at : k <= k2
    IN IF at = {} THEN d.title
       ELSE SubSeq(d.title, 1, k0 - 1) \o SubSeq(d.title, k0 + Len(mark), Len(d.title))

extractYouTubeStreamingData(d, streamingData) ==
    LET hls == JsonGet(streamingData, "hlsManifestUrl")
        dash == JsonGet(streamingData, "dashManifestUrl")
    IN (IF JsonTruthy(hls)
        THEN << [NoCandidateFields EXCEPT !.url = ManifestUrl(hls), !.type = "streaming",
                     !.platform = "youtube", !.format = "HLS", !.size = "Unknown",
                     !.isStreaming = TRUE,
                     !.title = IF PageTitle(d) # "" THEN PageTitle(d)
                               ELSE "YouTube HLS Stream"] >>
        ELSE <<>>)
       \o
       (IF JsonTruthy(dash)
        THEN << [NoCandidateFields EXCEPT !.url = ManifestUrl(dash), !.type = "streaming",
                     !.platform = "youtube", !.format = "DASH", !.size = "Unknown",
                     !.isStreaming = TRUE,
                     !.title = IF PageTitle(d) # "" THEN PageTitle(d)
                               ELSE "YouTube DASH Stream"] >>
        ELSE <<>>)

\* the outcome of the try block for one script: what it pushed, and whether
\* it ended in the catch block
YouTubeScriptOutcome(d, text) ==
    LET playerDataMatch == YtPlayerDataMatch(text)
        playerData == JsonParse(playerDataMatch)
        streamingData == JsonGet(playerData, "streamingData")
        named == text # "" /\ Includes(text, "ytInitialPlayerResponse")
    IN [caught |-> named /\ playerDataMatch # "" /\ ~playerData.ok,
        pushed |-> IF named /\ playerDataMatch # "" /\ playerData.ok
                      /\ JsonTruthy(streamingData)
                   THEN extractYouTubeStreamingData(d, streamingData)
                   ELSE <<>>]

\* a loop that ends at the first script whose try block fails
findYouTubeStreamingUrlsUntilError(d) ==
    LET failed == {i \in 1..Len(d.scripts) : YouTubeScriptOutcome(d, d.scripts[i]).caught}
    IN Flatten([i \in 1..Len(d.scripts) |->
           IF \E j \in failed : j <= i THEN <<>>
           ELSE YouTubeScriptOutcome(d, d.scripts[i]).pushed])

findYouTubeStreamingUrls(d) ==
    Flatten([i \in 1..Len(d.scripts) |-> YouTubeScriptOutcome(d, d.scripts[i]).pushed])

\* the candidates findFacebookStreamingUrls and findTikTokStreamingUrls push:
\* the title is the platform title (never empty, so its fallback is unused)
PlatformStreamingCandidates(d, urls, platform) ==
    [i \in 1..Len(urls) |->
        [StreamingCandidate(urls[i], platform) EXCEPT
            !.title = extractPlatformTitle(d, Undefined, platform)]]

findFacebookStreamingUrls(d) ==
    Flatten([i \in 1..Len(d.scripts) |->
        LET text == d.scripts[i] IN
        IF text # "" /\ (Includes(text, "hd_src") \/ Includes(text, "sd_src"))
        THEN PlatformStreamingCandidates(d, extractStreamingUrlsFromText(text), "facebook")
        ELSE <<>>])

findTikTokStreamingUrls(d) ==
    Flatten([i \in 1..Len(d.scripts) |->
        LET text == d.scripts[i] IN
        IF text # "" /\ Includes(text, "playAddr")
        THEN PlatformStreamingCandidates(d, extractStreamingUrlsFromText(text), "tiktok")
        ELSE <<>>])

scanPageForStreamingUrls(d, platform) ==
    Flatten([i \in 1..Len(d.scripts) |->
        IF d.scripts[i] # ""
        THEN StreamingCandidatesOf(extractStreamingUrlsFromText(d.scripts[i]), platform)
        ELSE <<>>])
    \o (IF platform = "youtube" THEN findYouTubeStreamingUrls(d)
        ELSE IF platform = "facebook" THEN findFacebookStreamingUrls(d)
        ELSE IF platform = "tiktok" THEN findTikTokStreamingUrls(d)
        ELSE <<>>)

\* observed: the streamingUrls Set, in insertion order
findStreamingVideos(d, platform, observed) ==
    StreamingCandidatesOf(observed, platform) \o scanPageForStreamingUrls(d, platform)

(***************************************************************************)
(* Deduplication and the validity filter.                                  *)
(***************************************************************************)
\* Array.prototype.filter with a Set of the keys seen so far
RECURSIVE FilterUnseen(_, _)
FilterUnseen(keyed, seen) ==
    IF Len(keyed) = 0 THEN <<>>
    ELSE IF Head(keyed)[1] \in seen THEN FilterUnseen(Tail(keyed), seen)
    ELSE <<Head(keyed)[2]>> \o FilterUnseen(Tail(keyed), seen \cup {Head(keyed)[1]})

\* the first definition in the class body (lines 493-503), which the later
\* definition of the same name replaces
removeDuplicatesByUrlOrSrc(list) ==
    FilterUnseen([i \in 1..Len(list) |->
                     <<IF Truthy(list[i].url) THEN list[i].url ELSE list[i].src, list[i]>>],
                 {})

\* a pass that drops only the first occurrence of each repeated key
removeFirstDuplicate(list) ==
    LET Repeated(i) == \E j \in (i + 1)..Len(list) : list[j].src = list[i].src
        First(i) == \A j \in 1..(i - 1) : list[j].src # list[i].src
        Keep(n) == ~(Repeated(n) /\ First(n))
        kept == {i \in 1..Len(list) : Keep(i)}
        RECURSIVE Pick(_)
        Pick(i) == IF i > Len(list) THEN <<>>
                   ELSE (IF i \in kept THEN <<list[i]>> ELSE <<>>) \o Pick(i + 1)
    IN Pick(1)

\* the second definition (lines 961-970): the method the class ends up with
removeDuplicates(list) ==
    FilterUnseen([i \in 1..Len(list) |-> <<list[i].src, list[i]>>], {})

\* a filter that lets every candidate through
isValidVideoAcceptsAll(video) == TRUE

isValidVideo(video) ==
    IF video.isStreaming THEN Truthy(video.url) /\ Len(video.url) > 10
    ELSE LET videoUrl == IF Truthy(video.url) THEN video.url ELSE video.src IN
         IF ~Truthy(videoUrl) \/ Len(videoUrl) < 10 THEN FALSE
         ELSE IF Len(videoUrl) < 20 THEN FALSE
         ELSE TRUE

(***************************************************************************)
(* What each harvest of findVideos finds in each document of the model.    *)
(* The document does not change during a behaviour, so the queries are     *)
(* evaluated once per document, when it is loaded (the variable found).    *)
(* observed: the candidate findStreamingVideos pushes for each URL a       *)
(* request of the page can put into this.streamingUrls.                    *)
(***************************************************************************)
PageHarvest ==
    [d \in Docs \cup ScenarioDocs |->
        LET platform == detectPlatform(d.hostname) IN
        [platform |-> platform,
         direct |-> findDirectVideoElements(d),
         source |-> findSourceElements(d),
         specific |-> findPlatformSpecificVideos(d, platform),
         scripts |-> scanPageForStreamingUrls(d, platform),
         observed |-> [url \in {UrlHls, UrlDash, UrlApi} |->
                          StreamingCandidate(url, platform)]]]

(***************************************************************************)
(* State of the page's content-script context.                             *)
(***************************************************************************)
VARIABLES
    doc,                    \* the document of the page
    found,                  \* what the finders of findVideos find in doc
    probe,                  \* the URL handed to the classifier functions
    verdict,                \* what the classifier functions return for probe
    executions,             \* number of executions of content.js so far
    videoDetectorInstance,  \* window.videoDetectorInstance: 0 unset, else the instance
    instances,              \* number of VideoDetector instances constructed
    listeners,              \* chrome.runtime.onMessage listeners: the instance of each
    xhrOpen,                \* wrappers around XMLHttpRequest.prototype.open, innermost first
    windowFetch,            \* wrappers around window.fetch, innermost first
    streamingUrls,          \* this.streamingUrls of each instance, in insertion order
    videos,                 \* the array this.videos of each instance refers to
    scans,                  \* the activations of findVideos
    msgs,                   \* the messages received, with the responses sent for each
    requests,               \* number of requests the page has made
    thrown,                 \* number of exceptions thrown inside findVideos so far
    lastCall,               \* what the last XMLHttpRequest.open / fetch call did
    retry,                  \* popup: the activation of sendMessageWithRetry
    popupVideos,            \* popup: this.videos
    items,                  \* popup: the list items displayVideos has appended
    shown,                  \* popup: the section that is displayed
    sent,                   \* popup: the messages sent with chrome.runtime.sendMessage
    bgMsgs,                 \* background: the messages received and their handling
    downloads,              \* background: the downloads of chrome.downloads, by id
    storageLocal,           \* background: ids i with a key download_i in chrome.storage.local
    changes,                \* background: the activations of handleDownloadChange
    bgStreamingUrls,        \* background: this.streamingUrls, tab id -> Set in insertion order
    insertions              \* history: the URLs added to the Set of each tab, in order

popupVars == <<retry, popupVideos, items, shown, sent>>

backgroundVars == <<bgMsgs, downloads, storageLocal, changes, bgStreamingUrls, insertions>>

contentVars ==
    <<doc, found, probe, verdict, executions, videoDetectorInstance, instances, listeners,
      xhrOpen, windowFetch, streamingUrls, videos, scans, msgs, requests, thrown, lastCall>>

vars == <<contentVars, popupVars, backgroundVars>>

Instances == 1..MaxInject

NoCall == [prim |-> "none", receiver |-> Undefined, args |-> <<>>,
           origReceiver |-> Undefined, origArgs |-> <<>>, origCalls |-> 0,
           returned |-> <<>>, adds |-> 0, before |-> <<>>, after |-> <<>>,
           wrappers |-> 0, execs |-> 0]

NoVerdict ==
    [done |-> FALSE, isStreamingUrl |-> FALSE, lowered |-> FALSE,
     isValidVideoUrl |-> FALSE, getVideoFormat |-> "", pushed |-> <<>>,
     runs |-> 0, deduped |-> <<>>, dedupedAgain |-> <<>>,
     returned |-> <<>>, returnedAgain |-> <<>>]

\* the context after the page with one of the documents docs has loaded;
\* probes are the URLs the classifier functions may be handed
Loaded(docs, probes) ==
    /\ doc \in docs
    /\ found = PageHarvest[doc]
    /\ probe \in probes
    /\ verdict = NoVerdict
    /\ executions = 0
    /\ videoDetectorInstance = 0
    /\ instances = 0
    /\ listeners = <<>>
    /\ xhrOpen = <<>>
    /\ windowFetch = <<>>
    /\ streamingUrls = [i \in Instances |-> <<>>]
    /\ videos = [i \in Instances |-> <<>>]
    /\ scans = <<>>
    /\ msgs = <<>>
    /\ requests = 0
    /\ thrown = 0
    /\ lastCall = NoCall

\* the popup is not open; response is what sendMessageWithRetry returned
\* (received: it is a response object, not undefined)
NoRetry ==
    [maxRetries |-> 0, attempt |-> 0, pc |-> "idle", outcomes |-> <<>>,
     response |-> [received |-> FALSE, videos |-> <<>>]]

PopupClosed ==
    /\ retry = NoRetry
    /\ popupVideos = <<>>
    /\ items = <<>>
    /\ shown = "loading"
    /\ sent = <<>>

\* the background script after its constructor and init()
Tabs == {1, 2}

BackgroundStarted ==
    /\ bgMsgs = <<>>
    /\ downloads = <<>>
    /\ storageLocal = {}
    /\ changes = <<>>
    /\ bgStreamingUrls = [t \in Tabs |-> <<>>]
    /\ insertions = [t \in Tabs |-> <<>>]

Init == Loaded(Docs, {Undefined}) /\ PopupClosed /\ BackgroundStarted

(***************************************************************************)
(* findVideos.  An activation runs from one await to the next in one step; *)
(* pc names the await it is suspended at.  A step may throw, before its    *)
(* first push (throwAt = 0; throwAt = -1: it does not throw).  res is the  *)
(* array the activation returned; while aliased, that array is still the   *)
(* one this.videos refers to and its content is videos[inst].  obs0 and    *)
(* obs are the observed URLs when the activation started and when it       *)
(* materialized them, concat the list it deduplicated.                     *)
(***************************************************************************)
Prefix(seq, k) == SubSeq(seq, 1, k)

Throws(throwAt) == IF throwAt = -1 THEN 0 ELSE 1

ThrowChoices(pushes) == IF thrown < MaxThrows THEN {-1, 0} ELSE {-1}

\* a catch block that returns what has been collected so far
CatchReturnPartial(partial) == partial

\* the catch block of findVideos: the value the activation returns
CatchReturn(partial) == <<>>

\* an assignment to this.videos leaves the array a returned activation
\* still holds with the content it had
Detach(scs, inst, content) ==
    [k \in 1..Len(scs) |->
        IF scs[k].inst = inst /\ scs[k].aliased
        THEN [scs[k] EXCEPT !.res = content, !.aliased = FALSE]
        ELSE scs[k]]

\* the activation after its promise has settled with value; the promise of
\* the automatic scan has no reaction
Settled(sc, value, isThisVideos, threw) ==
    [sc EXCEPT !.pc = IF sc.msg = 0 THEN "done" ELSE "returned",
               !.res = value,
               !.aliased = isThisVideos /\ sc.msg # 0,
               !.threw = threw]

\* the catch block: partial is what this.videos holds when the exception
\* is caught
Caught(sc, partial) ==
    Settled([sc EXCEPT !.partial = partial], CatchReturn(partial), FALSE, TRUE)

\* findVideos up to its first await: this.videos = [], detectPlatform and
\* the body of findDirectVideoElements
StartedVideos(throwAt) ==
    IF throwAt = -1 THEN found.direct
    ELSE Prefix(found.direct, throwAt)

StartedScan(inst, msg, throwAt) ==
    LET sc == [inst |-> inst, msg |-> msg, pc |-> "afterDirect",
               platform |-> found.platform, threw |-> FALSE,
               aliased |-> FALSE, res |-> <<>>, obs0 |-> streamingUrls[inst],
               obs |-> <<>>, concat |-> <<>>, partial |-> <<>>]
    IN IF throwAt = -1 THEN sc
       ELSE Caught(sc, StartedVideos(throwAt))

\* the pushes of the step an activation suspended at pc runs next
StepPushes(sc) ==
    CASE sc.pc = "afterDirect" -> found.source
      [] sc.pc = "afterSource" -> found.specific
      [] sc.pc = "afterPlatform" ->
            [i \in 1..Len(streamingUrls[sc.inst]) |->
                found.observed[streamingUrls[sc.inst][i]]]
                \o found.scripts
      [] OTHER -> <<>>

NextPc(pc) ==
    CASE pc = "afterDirect" -> "afterSource"
      [] pc = "afterSource" -> "afterPlatform"
      [] pc = "afterPlatform" -> "afterStreaming"

Running(sc) == sc.pc \in {"afterDirect", "afterSource", "afterPlatform", "afterStreaming"}

\* a harvest step: findSourceElements, findPlatformSpecificVideos or
\* findStreamingVideos, up to the await that follows it
HarvestStep(s) ==
    /\ s \in 1..Len(scans)
    /\ scans[s].pc \in {"afterDirect", "afterSource", "afterPlatform"}
    /\ LET sc == scans[s]
           pushes == StepPushes(sc)
       IN \E throwAt \in ThrowChoices(pushes) :
            LET pushed == IF throwAt = -1 THEN pushes ELSE Prefix(pushes, throwAt)
                now == videos[sc.inst] \o pushed
                seen == IF sc.pc = "afterPlatform" THEN streamingUrls[sc.inst] ELSE sc.obs
            IN /\ videos' = [videos EXCEPT ![sc.inst] = now]
               /\ scans' = [scans EXCEPT ![s] =
                    IF throwAt = -1
                    THEN [sc EXCEPT !.pc = NextPc(sc.pc), !.obs = seen]
                    ELSE Caught([sc EXCEPT !.obs = seen], now)]
               /\ thrown' = thrown + Throws(throwAt)
    /\ UNCHANGED <<popupVars, backgroundVars, doc, found, probe, verdict, executions, videoDetectorInstance,
                   instances, listeners, xhrOpen,
                   windowFetch, streamingUrls, msgs, requests, lastCall>>

\* removeDuplicates, the isValidVideo filter and return this.videos
FinishStep(s) ==
    /\ s \in 1..Len(scans)
    /\ scans[s].pc = "afterStreaming"
    /\ LET sc == scans[s]
           concat == videos[sc.inst]
           result == SelectSeq(removeDuplicates(concat), isValidVideo)
       IN \E throwAt \in ThrowChoices(<<>>) :
            /\ thrown' = thrown + Throws(throwAt)
            /\ IF throwAt # -1
               THEN /\ scans' = [scans EXCEPT ![s] = Caught(sc, concat)]
                    /\ UNCHANGED videos
               ELSE /\ videos' = [videos EXCEPT ![sc.inst] = result]
                    /\ scans' = [Detach(scans, sc.inst, concat) EXCEPT ![s] =
                           Settled([sc EXCEPT !.concat = concat], result, TRUE, FALSE)]
    /\ UNCHANGED <<popupVars, backgroundVars, doc, found, probe, verdict, executions, videoDetectorInstance,
                   instances, listeners, xhrOpen,
                   windowFetch, streamingUrls, msgs, requests, lastCall>>

\* the array an activation returned, as it is now
Returned(sc) == IF sc.aliased THEN videos[sc.inst] ELSE sc.res

(***************************************************************************)
(* The onMessage listener and its reactions.                               *)
(***************************************************************************)
\* a listener whose action test never succeeds
ListenerHandlesNothing(action) == FALSE

\* request.action === 'findVideos'
ListenerHandles(action) == action = "findVideos"

\* the reactions .then / .catch of the listener: findVideos catches every
\* exception itself, so its promise is always fulfilled
ListenerResponse(sc, value) ==
    [videos |-> value, error |-> Undefined, scan |-> sc]

MessageActions == {"findVideos", "ping"}

ReceiveMessage(action) ==
    /\ Len(msgs) < MaxMessages
    /\ Len(listeners) > 0
    /\ msgs' = Append(msgs, [action |-> action, responses |-> <<>>])
    /\ IF ListenerHandles(action)
       THEN \E throwAt \in ThrowChoices(found.direct) :
              /\ videos' = [i \in Instances |->
                    IF \E k \in 1..Len(listeners) : listeners[k] = i
                    THEN StartedVideos(throwAt) ELSE videos[i]]
              /\ scans' = [k \in 1..Len(scans) |->
                              IF scans[k].aliased
                                 /\ \E j \in 1..Len(listeners) : listeners[j] = scans[k].inst
                              THEN [scans[k] EXCEPT !.res = videos[scans[k].inst],
                                                    !.aliased = FALSE]
                              ELSE scans[k]]
                          \o [k \in 1..Len(listeners) |->
                                StartedScan(listeners[k], Len(msgs) + 1, throwAt)]
              /\ thrown' = thrown + Throws(throwAt)
       ELSE UNCHANGED <<videos, scans, thrown>>
    /\ UNCHANGED <<popupVars, backgroundVars, doc, found, probe, verdict, executions, videoDetectorInstance,
                   instances, listeners, xhrOpen,
                   windowFetch, streamingUrls, requests, lastCall>>

\* .then(videos => sendResponse({ videos: videos }))
Respond(s) ==
    /\ s \in 1..Len(scans)
    /\ scans[s].pc = "returned"
    /\ LET sc == scans[s]
           value == Returned(sc)
       IN /\ msgs' = [msgs EXCEPT ![sc.msg].responses =
                        Append(@, ListenerResponse(s, value))]
          /\ scans' = [scans EXCEPT ![s] =
                        [sc EXCEPT !.pc = "done", !.res = value, !.aliased = FALSE]]
    /\ UNCHANGED <<popupVars, backgroundVars, doc, found, probe, verdict, executions, videoDetectorInstance,
                   instances, listeners, xhrOpen,
                   windowFetch, streamingUrls, videos, requests, thrown, lastCall>>

(***************************************************************************)
(* Execution of content.js: the instance guard, the constructor and init.  *)
(***************************************************************************)
\* a script without the guard: every execution constructs an instance
InstanceNeverExists(v) == FALSE

\* if (window.videoDetectorInstance)
InstanceExists(v) == v # 0

ExecuteContentScript ==
    /\ executions < MaxInject
    /\ executions' = executions + 1
    /\ IF InstanceExists(videoDetectorInstance)
       THEN UNCHANGED <<videoDetectorInstance, instances, listeners, xhrOpen, windowFetch,
                        streamingUrls, videos, scans, thrown>>
       ELSE LET inst == instances + 1 IN
            \E throwAt \in ThrowChoices(found.direct) :
              /\ instances' = inst
              /\ videoDetectorInstance' = inst
              /\ listeners' = Append(listeners, inst)
              /\ xhrOpen' = Append(xhrOpen, inst)
              /\ windowFetch' = Append(windowFetch, inst)
              /\ streamingUrls' = [streamingUrls EXCEPT ![inst] = <<>>]
              /\ videos' = [videos EXCEPT ![inst] = StartedVideos(throwAt)]
              /\ scans' = Append(scans, StartedScan(inst, 0, throwAt))
              /\ thrown' = thrown + Throws(throwAt)
    /\ UNCHANGED <<popupVars, backgroundVars, doc, found, probe, verdict, msgs, requests, lastCall>>

(***************************************************************************)
(* monitorNetworkRequests: the wrappers around XMLHttpRequest.prototype    *)
(* .open and window.fetch.  An argument is a string, a Request (v is its   *)
(* url), another object, or undefined.                                     *)
(***************************************************************************)
Str(v) == [kind |-> "string", v |-> v]

Req(url) == [kind |-> "Request", v |-> url]

Obj == [kind |-> "object", v |-> ""]

Undef == [kind |-> "undefined", v |-> ""]

\* a named parameter: undefined when the caller passed fewer arguments
ArgAt(args, i) == IF i <= Len(args) THEN args[i] ELSE Undef

\* a recorder that keeps only the URL observed last
SetAddReplacing(set, url) == <<url>>

\* Set.prototype.add on the insertion-ordered set
SetAdd(set, url) ==
    IF \E i \in 1..Len(set) : set[i] = url THEN set ELSE Append(set, url)

\* function(method, url, ...args): the URL the wrapper records, if any
XhrRecorded(args) ==
    LET url == ArgAt(args, 2) IN
    IF url.kind = "string" /\ isStreamingUrl(url.v) THEN <<url.v>> ELSE <<>>

\* originalOpen.apply(this, [method, url, ...args])
XhrForwarded(args) == <<ArgAt(args, 1), ArgAt(args, 2)>> \o SubSeq(args, 3, Len(args))

\* function(url, ...args): the URL the wrapper records, if any
FetchRecorded(args) ==
    LET url == ArgAt(args, 1) IN
    IF url.kind = "string" /\ isStreamingUrl(url.v) THEN <<url.v>>
    ELSE IF url.kind = "Request" /\ isStreamingUrl(url.v) THEN <<url.v>>
    ELSE <<>>

\* originalFetch.apply(this, [url, ...args])
FetchForwarded(args) == <<ArgAt(args, 1)>> \o SubSeq(args, 2, Len(args))

\* what the native primitive returns for a receiver and an argument list
NativeResult(prim, receiver, args) == <<prim, receiver, args>>

\* a call entering the outermost wrapper of chain and passed on inwards to
\* the native primitive: the arguments the primitive receives, the sets
\* after the call and the number of add() calls made
RECURSIVE CallThrough(_, _, _, _, _)
CallThrough(prim, chain, args, sets, adds) ==
    IF Len(chain) = 0 THEN [args |-> args, sets |-> sets, adds |-> adds]
    ELSE LET self == chain[Len(chain)]
             rec == IF prim = "xhr" THEN XhrRecorded(args) ELSE FetchRecorded(args)
             fwd == IF prim = "xhr" THEN XhrForwarded(args) ELSE FetchForwarded(args)
             sets2 == IF Len(rec) = 0 THEN sets
                      ELSE [sets EXCEPT ![self] = SetAdd(@, rec[1])]
         IN CallThrough(prim, SubSeq(chain, 1, Len(chain) - 1), fwd, sets2,
                        adds + Len(rec))

\* the calls the page makes: open(method) and open(method, url, async)
XhrCalls == {<<Str("GET")>>, <<Str("GET"), Str(UrlHls), Str("true")>>}

\* fetch(request) and fetch(url, options)
FetchCalls == {<<Req(UrlDash)>>, <<Str(UrlApi), Obj>>}

PageCall(prim, chain, receiver, args) ==
    /\ requests < MaxRequests
    /\ requests' = requests + 1
    /\ LET out == CallThrough(prim, chain, args, streamingUrls, 0) IN
       /\ streamingUrls' = out.sets
       /\ lastCall' = [prim |-> prim, receiver |-> receiver, args |-> args,
                       origReceiver |-> receiver, origArgs |-> out.args,
                       origCalls |-> 1,
                       returned |-> NativeResult(prim, receiver, out.args),
                       adds |-> out.adds,
                       before |-> streamingUrls, after |-> out.sets,
                       wrappers |-> Len(chain), execs |-> executions]
    /\ UNCHANGED <<popupVars, backgroundVars, doc, found, probe, verdict, executions, videoDetectorInstance,
                   instances, listeners, xhrOpen,
                   windowFetch, videos, scans, msgs, thrown>>

\* the page calls xhr.open(...)
XhrOpenCall == \E args \in XhrCalls : PageCall("xhr", xhrOpen, "xhr", args)

\* the page calls fetch(...)
FetchCall == \E args \in FetchCalls : PageCall("fetch", windowFetch, "window", args)

(***************************************************************************)
(* findVideos as a function of the document and the observed URLs: what   *)
(* one activation returns when nothing else runs between its steps and no *)
(* step throws.                                                            *)
(***************************************************************************)
findVideos(d, observed) ==
    LET platform == detectPlatform(d.hostname)
        all == findDirectVideoElements(d)
                 \o findSourceElements(d)
                 \o findPlatformSpecificVideos(d, platform)
                 \o findStreamingVideos(d, platform, observed)
    IN SelectSeq(removeDuplicates(all), isValidVideo)

(***************************************************************************)
(* Specifications.  Spec is the schedule of the browser's event loop:      *)
(* every continuation of findVideos and every promise reaction is a        *)
(* microtask, run before the next task (an execution of the script, a      *)
(* message, a call by the page) starts.  OverlapSpec lets a task start     *)
(* while an activation is suspended at an await, so that activations       *)
(* overlap.                                                                *)
(***************************************************************************)
ScanSteps == \E s \in 1..Len(scans) : HarvestStep(s) \/ FinishStep(s)

Reactions == \E s \in 1..Len(scans) : Respond(s)

Messages == \E action \in MessageActions : ReceiveMessage(action)

Quiescent == \A s \in 1..Len(scans) : scans[s].pc = "done"

Next ==
    \/ Quiescent /\ ExecuteContentScript
    \/ Quiescent /\ Messages
    \/ ScanSteps
    \/ Reactions
    \/ Quiescent /\ XhrOpenCall
    \/ Quiescent /\ FetchCall

Spec == Init /\ [][Next]_vars

\* the microtask queue is always drained
FairSpec == Spec /\ WF_vars(ScanSteps) /\ WF_vars(Reactions)

OverlapNext ==
    \/ ExecuteContentScript
    \/ Messages
    \/ ScanSteps
    \/ Reactions
    \/ XhrOpenCall
    \/ FetchCall

OverlapSpec == Init /\ [][OverlapNext]_vars

(***************************************************************************)
(* The single-element pages, on which the page itself makes no request.    *)
(***************************************************************************)
ScenarioInit == Loaded(ScenarioDocs, {Undefined}) /\ PopupClosed /\ BackgroundStarted

ScenarioNext ==
    \/ Quiescent /\ ExecuteContentScript
    \/ Quiescent /\ Messages
    \/ ScanSteps
    \/ Reactions

ScenarioSpec == ScenarioInit /\ [][ScenarioNext]_vars

(***************************************************************************)
(* The URL classifier functions applied to a URL: isStreamingUrl to the    *)
(* URL and to its lower-case form, isValidVideoUrl, getVideoFormat, and    *)
(* the element passes of findVideos to an element with that address.       *)
(***************************************************************************)
ProbeSchemes == {"https://", "http://", "blob:https://", "data:video/mp4;base64,", ""}

ProbePaths ==
    {"example.com/v/", "cdn.example.com/hls/", "example.com/stream/", "a.b/DASH/",
     "x.io/segment-12/", "example.com/campdata/"}

ProbeFiles ==
    {"clip.mp4", "CLIP.MP4", "master.m3u8", "A.M3U8", "manifest.mpd", "V.MPD", "seg.ts",
     "watch", "movie.mkv?f=.mp4", ""}

ProbeUrls ==
    {sch \o path \o file : sch \in ProbeSchemes, path \in ProbePaths, file \in ProbeFiles}
        \cup {Undefined, ""}

\* a TikTok page whose only video element, and its nested source, have the
\* address url
ProbeDoc(url) ==
    [hostname |-> "www.tiktok.com", title |-> "", caption |-> "",
     videos |-> << [src |-> url, sources |-> <<url>>, sel |-> {".video-player video"}, title |-> ""] >>,
     scripts |-> <<>>]

Classify ==
    /\ ~verdict.done
    /\ verdict' =
          [done |-> TRUE,
           isStreamingUrl |-> isStreamingUrl(probe),
           lowered |-> isStreamingUrl(IF probe = Undefined THEN probe ELSE ToLowerCase(probe)),
           isValidVideoUrl |-> IF probe = Undefined THEN FALSE ELSE isValidVideoUrl(probe),
           getVideoFormat |-> getVideoFormat(probe),
           pushed |-> IF probe = Undefined THEN <<>>
                      ELSE findDirectVideoElements(ProbeDoc(probe))
                             \o findSourceElements(ProbeDoc(probe))
                             \o PlatformSelectorVideos(ProbeDoc(probe), "tiktok")]
    /\ UNCHANGED <<popupVars, backgroundVars, doc, found, probe, executions, videoDetectorInstance, instances,
                   listeners, xhrOpen, windowFetch, streamingUrls, videos, scans, msgs,
                   requests, thrown, lastCall>>

ClassifyInit == Loaded({DocGeneric}, ProbeUrls) /\ PopupClosed /\ BackgroundStarted

ClassifySpec == ClassifyInit /\ [][Classify]_vars

(***************************************************************************)
(* The last two statements of findVideos, removeDuplicates and the         *)
(* isValidVideo filter, applied to a list of candidates and then to what   *)
(* they returned.                                                          *)
(***************************************************************************)
MaxList == 3

UrlTiny == "a.m3u8"

CandidatePool ==
    {[NoCandidateFields EXCEPT !.src = UrlMp4, !.type = "direct"],
     [NoCandidateFields EXCEPT !.src = UrlMp4, !.type = "source"],
     [NoCandidateFields EXCEPT !.src = UrlShort, !.type = "source"],
     [NoCandidateFields EXCEPT !.url = UrlMp4, !.type = "tiktok"],
     [NoCandidateFields EXCEPT !.url = UrlBlob, !.type = "tiktok_blob", !.format = "blob",
          !.size = "Unknown", !.downloadable = "false", !.reason = BlobReason,
          !.alternative = BlobAlternative],
     StreamingCandidate(UrlHls, "generic"),
     StreamingCandidate(UrlTiny, "generic")}

CandidateLists ==
    UNION {[1..n -> CandidatePool] : n \in 0..MaxList}

DeduplicateAndFilter ==
    /\ verdict.runs < 2
    /\ verdict' =
          IF verdict.runs = 0
          THEN [verdict EXCEPT !.runs = 1,
                    !.deduped = removeDuplicates(probe),
                    !.returned = SelectSeq(removeDuplicates(probe), isValidVideo)]
          ELSE [verdict EXCEPT !.runs = 2,
                    !.dedupedAgain = removeDuplicates(verdict.deduped),
                    !.returnedAgain =
                        SelectSeq(removeDuplicates(verdict.returned), isValidVideo)]
    /\ UNCHANGED <<popupVars, backgroundVars, doc, found, probe, executions, videoDetectorInstance, instances,
                   listeners, xhrOpen, windowFetch, streamingUrls, videos, scans, msgs,
                   requests, thrown, lastCall>>

DedupInit == Loaded({DocGeneric}, CandidateLists) /\ PopupClosed /\ BackgroundStarted

DedupSpec == DedupInit /\ [][DeduplicateAndFilter]_vars

(***************************************************************************)
(* The popup.  scanForVideos calls sendMessageWithRetry(tab.id, message,   *)
(* maxRetries) for the active tab, whose document is doc, and displays the *)
(* videos of the response; a click on a button of an item calls            *)
(* downloadVideo or showVideoInfo.  The content script answers with the    *)
(* list a scan of doc returns when the page has made no request.           *)
(***************************************************************************)
MaxRetries == 3

MaxClicks == 2

AllDocs == Docs \cup ScenarioDocs

\* scanForVideos up to the first chrome.tabs.sendMessage of the loop
PopupOpened ==
    /\ \E m \in 1..MaxRetries :
          retry = [NoRetry EXCEPT !.maxRetries = m, !.attempt = 1, !.pc = "sending"]
    /\ popupVideos = <<>>
    /\ items = <<>>
    /\ shown = "loading"
    /\ sent = <<>>

\* sendResponse({ videos: videos }) of the content script of the tab
ScanResponse ==
    [received |-> TRUE,
     videos |-> SelectSeq(removeDuplicates(found.direct \o found.source \o found.specific
                                              \o found.scripts),
                          isValidVideo)]

\* a loop that never takes an attempt for the last one
LastAttemptNever(attempt, maxRetries) == FALSE

\* attempt === maxRetries
LastAttempt(attempt, maxRetries) == attempt = maxRetries

\* the promise of chrome.tabs.sendMessage settles: the try block returns the
\* response, or the catch block throws or starts the timer
Attempt(ok) ==
    /\ retry.pc = "sending"
    /\ retry' =
          IF ok
          THEN [retry EXCEPT !.pc = "returned", !.outcomes = Append(@, "ok"),
                             !.response = ScanResponse]
          ELSE IF LastAttempt(retry.attempt, retry.maxRetries)
          THEN [retry EXCEPT !.pc = "threw", !.outcomes = Append(@, "failed")]
          ELSE [retry EXCEPT !.pc = "waiting", !.outcomes = Append(@, "failed")]
    /\ UNCHANGED <<contentVars, backgroundVars, popupVideos, items, shown, sent>>

\* the timer of 300 * attempt ms fires: attempt++, the loop test, and the
\* next chrome.tabs.sendMessage; past the loop the function returns undefined
Backoff ==
    /\ retry.pc = "waiting"
    /\ retry' =
          IF retry.attempt + 1 <= retry.maxRetries
          THEN [retry EXCEPT !.attempt = @ + 1, !.pc = "sending"]
          ELSE [retry EXCEPT !.attempt = @ + 1, !.pc = "returned"]
    /\ UNCHANGED <<contentVars, backgroundVars, popupVideos, items, shown, sent>>

\* createVideoItem: shortenUrl(video.url) reads url.length, which throws a
\* TypeError when the candidate has no url
createVideoItem(video) ==
    LET isBlob == Truthy(video.url) /\ StartsWith(video.url, "blob:")
        isNonDownloadable == video.downloadable = "false"
    IN IF video.url = Undefined THEN [threw |-> TRUE, button |-> "none"]
       ELSE [threw |-> FALSE,
             button |-> IF isBlob \/ isNonDownloadable THEN "info" ELSE "download"]

\* scanForVideos after sendMessageWithRetry returned: this.videos, and
\* displayVideos with its forEach, which an exception of createVideoItem
\* ends; the catch block of scanForVideos then calls showError
Display ==
    /\ retry.pc = "returned"
    /\ shown = "loading"
    /\ LET list == IF retry.response.received THEN retry.response.videos ELSE <<>>
           made == [i \in 1..Len(list) |-> createVideoItem(list[i])]
           threwAt == {i \in 1..Len(list) : made[i].threw}
           n == IF threwAt = {} THEN Len(list)
                ELSE (CHOOSE i \in threwAt : \A j \in threwAt : i <= j) - 1
       IN /\ popupVideos' = list
          /\ items' = [i \in 1..n |-> [button |-> made[i].button, infoShown |-> FALSE]]
          /\ shown' = IF Len(list) = 0 THEN "no-videos"
                      ELSE IF threwAt # {} THEN "error"
                      ELSE "videos-list"
    /\ UNCHANGED <<contentVars, backgroundVars, retry, sent>>

\* scanForVideos after sendMessageWithRetry threw: showError
Fail ==
    /\ retry.pc = "threw"
    /\ shown = "loading"
    /\ shown' = "error"
    /\ UNCHANGED <<contentVars, backgroundVars, retry, popupVideos, items, sent>>

\* a click on the download button of item i: downloadVideo(video, button)
ClickDownload(i) ==
    /\ shown = "videos-list"
    /\ i \in 1..Len(items)
    /\ items[i].button = "download"
    /\ Len(sent) < MaxClicks
    /\ LET video == popupVideos[i]
           isStreaming == \/ video.format = "HLS" \/ video.format = "DASH"
                          \/ Includes(video.url, ".m3u8") \/ Includes(video.url, ".mpd")
       IN sent' = Append(sent,
                     IF isStreaming
                     THEN [action |-> "downloadStreaming", index |-> i, url |-> video.url]
                     ELSE [action |-> "downloadVideo", index |-> i, url |-> video.url])
    /\ UNCHANGED <<contentVars, backgroundVars, retry, popupVideos, items, shown>>

\* a click on the info button of item i: showVideoInfo(video)
ClickInfo(i) ==
    /\ shown = "videos-list"
    /\ i \in 1..Len(items)
    /\ items[i].button = "info"
    /\ ~items[i].infoShown
    /\ items' = [items EXCEPT ![i].infoShown = TRUE]
    /\ UNCHANGED <<contentVars, backgroundVars, retry, popupVideos, shown, sent>>

PopupInit == Loaded(AllDocs, {Undefined}) /\ PopupOpened /\ BackgroundStarted

PopupNext ==
    \/ \E ok \in BOOLEAN : Attempt(ok)
    \/ Backoff
    \/ Display
    \/ Fail
    \/ \E i \in 1..Len(items) : ClickDownload(i)
    \/ \E i \in 1..Len(items) : ClickInfo(i)

PopupSpec == PopupInit /\ [][PopupNext]_vars

(***************************************************************************)
(* The background script.  A message is handled by handleMessage, which    *)
(* runs downloadVideo or downloadStreamingVideo; an activation is          *)
(* suspended at an await (pc): checking at the fetch of                    *)
(* checkUrlAccessibility, fetching at the fetch of downloadHLS or          *)
(* downloadDASH, starting at chrome.downloads.download, created once the   *)
(* browser has created the download and the promise is about to resolve,   *)
(* storing at chrome.storage.local.set.  The steps that follow a settled   *)
(* promise without another await are part of the same action.  Calls of    *)
(* chrome.storage.local take effect in the order they are made.            *)
(***************************************************************************)
MaxBgMessages == 2

BgRequests ==
    {[action |-> "downloadVideo", url |-> u, format |-> Undefined] :
        u \in {UrlMp4, UrlBlob, UrlRel}}
    \cup {[action |-> "downloadStreaming", url |-> UrlHls, format |-> "HLS"],
          [action |-> "downloadStreaming", url |-> UrlDash, format |-> "DASH"],
          [action |-> "downloadStreaming", url |-> UrlApi, format |-> "Stream"],
          [action |-> "getStreamingUrls", url |-> Undefined, format |-> Undefined]}

\* new URL(url) does not throw
isValidUrl(url) == Truthy(url) /\ UrlProtocol(url) # ""

\* a test that takes no URL for a blob URL
isBlobUrlNever(url) == FALSE

isBlobUrl(url) == StartsWith(url, "blob:")

\* a catch block that logs the error and sends nothing
ThrewUnanswered(msg, error) == [msg EXCEPT !.pc = "done", !.threw = TRUE]

\* the exception reaches the catch block of handleMessage
Threw(msg, error) ==
    [msg EXCEPT !.pc = "done", !.threw = TRUE,
                !.responses = Append(@, [success |-> FALSE, error |-> error])]

\* the operation returned: sendResponse({ success: true, ... })
Replied(msg) ==
    [msg EXCEPT !.pc = "done",
                !.responses = Append(@, [success |-> TRUE, error |-> Undefined])]

\* handleMessage up to its first await; playlist: the activation runs
\* downloadHLS or downloadDASH, otherwise downloadVideo
handleMessage(request) ==
    LET msg == [action |-> request.action, url |-> request.url, pc |-> "done",
                threw |-> FALSE, responses |-> <<>>, id |-> 0,
                accessible |-> "unchecked", called |-> FALSE, playlist |-> FALSE]
        format == IF Truthy(request.format) THEN request.format
                  ELSE IF Includes(request.url, ".m3u8") THEN "HLS"
                  ELSE IF Includes(request.url, ".mpd") THEN "DASH"
                  ELSE "DIRECT"
    IN IF request.action \notin {"downloadVideo", "downloadStreaming"} THEN msg
       ELSE IF request.action = "downloadStreaming" /\ format \in {"HLS", "DASH"}
       THEN [msg EXCEPT !.pc = "fetching", !.playlist = TRUE]
       ELSE IF ~isValidUrl(request.url) THEN Threw(msg, "URL khong hop le")
       ELSE IF isBlobUrl(request.url)
       THEN Threw(msg, "Blob URLs khong the tai xuong truc tiep")
       ELSE [msg EXCEPT !.pc = "checking"]

\* the onMessage listener is called with request
ReceiveBg(request) ==
    /\ Len(bgMsgs) < MaxBgMessages
    /\ bgMsgs' = Append(bgMsgs, handleMessage(request))
    /\ UNCHANGED <<contentVars, popupVars, downloads, storageLocal, changes, bgStreamingUrls, insertions>>

\* the fetch of checkUrlAccessibility, downloadHLS or downloadDASH settles;
\* on success the activation goes on to call chrome.downloads.download
FetchSettled(m, ok) ==
    /\ m \in 1..Len(bgMsgs)
    /\ bgMsgs[m].pc \in {"checking", "fetching"}
    /\ LET msg == IF bgMsgs[m].playlist THEN bgMsgs[m]
                  ELSE [bgMsgs[m] EXCEPT !.accessible = IF ok THEN "yes" ELSE "no"]
       IN bgMsgs' = [bgMsgs EXCEPT ![m] =
              IF ok THEN [msg EXCEPT !.pc = "starting", !.called = TRUE]
              ELSE Threw(msg, IF msg.playlist THEN "Failed to fetch"
                              ELSE "URL khong kha dung")]
    /\ UNCHANGED <<contentVars, popupVars, downloads, storageLocal, changes, bgStreamingUrls, insertions>>

\* the browser creates the download, or chrome.downloads.download rejects
DownloadCreated(m, ok) ==
    /\ m \in 1..Len(bgMsgs)
    /\ bgMsgs[m].pc = "starting"
    /\ IF ok
       THEN /\ downloads' = Append(downloads, [by |-> m, state |-> "in_progress"])
            /\ bgMsgs' = [bgMsgs EXCEPT ![m].pc = "created", ![m].id = Len(downloads) + 1]
       ELSE /\ bgMsgs' = [bgMsgs EXCEPT ![m] = Threw(@, "Download failed")]
            /\ UNCHANGED downloads
    /\ UNCHANGED <<contentVars, popupVars, storageLocal, changes, bgStreamingUrls, insertions>>

\* the activation continues with the download id: downloadVideo calls
\* storeDownloadInfo (chrome.storage.local.set), downloadPlaylistFile
\* returns; and after the set, downloadVideo returns the id
Continue(m) ==
    /\ m \in 1..Len(bgMsgs)
    /\ bgMsgs[m].pc \in {"created", "storing"}
    /\ IF bgMsgs[m].pc = "created" /\ ~bgMsgs[m].playlist
       THEN /\ storageLocal' = storageLocal \cup {bgMsgs[m].id}
            /\ bgMsgs' = [bgMsgs EXCEPT ![m].pc = "storing"]
       ELSE /\ bgMsgs' = [bgMsgs EXCEPT ![m] = Replied(@)]
            /\ UNCHANGED storageLocal
    /\ UNCHANGED <<contentVars, popupVars, downloads, changes, bgStreamingUrls, insertions>>

\* the download ends and chrome.downloads.onChanged calls
\* handleDownloadChange, which runs up to the await of getDownloadInfo
DownloadEnds(id, state) ==
    /\ id \in 1..Len(downloads)
    /\ downloads[id].state = "in_progress"
    /\ downloads' = [downloads EXCEPT ![id].state = state]
    /\ changes' = Append(changes, [id |-> id, state |-> state, pc |-> "getting"])
    /\ UNCHANGED <<contentVars, popupVars, bgMsgs, storageLocal, bgStreamingUrls, insertions>>

\* handleDownloadChange continues: after getDownloadInfo to
\* cleanupDownloadInfo (complete) or chrome.downloads.search (interrupted),
\* after the search to cleanupDownloadInfo, after the removal to the end
ChangeStep(c) ==
    /\ c \in 1..Len(changes)
    /\ changes[c].pc \in {"getting", "searching", "cleaning"}
    /\ LET ch == changes[c]
           removes == \/ ch.pc = "getting" /\ ch.state = "complete"
                      \/ ch.pc = "searching"
       IN /\ changes' = [changes EXCEPT ![c].pc =
                 IF removes THEN "cleaning"
                 ELSE IF ch.pc = "getting" THEN "searching"
                 ELSE "done"]
          /\ storageLocal' = IF removes THEN storageLocal \ {ch.id} ELSE storageLocal
    /\ UNCHANGED <<contentVars, popupVars, bgMsgs, downloads, bgStreamingUrls, insertions>>

BackgroundInit == Loaded({DocGeneric}, {Undefined}) /\ PopupClosed /\ BackgroundStarted

BackgroundNext ==
    \/ \E request \in BgRequests : ReceiveBg(request)
    \/ \E m \in 1..Len(bgMsgs), ok \in BOOLEAN : FetchSettled(m, ok)
    \/ \E m \in 1..Len(bgMsgs), ok \in BOOLEAN : DownloadCreated(m, ok)
    \/ \E m \in 1..Len(bgMsgs) : Continue(m)
    \/ \E id \in 1..Len(downloads), state \in {"complete", "interrupted"} :
          DownloadEnds(id, state)
    \/ \E c \in 1..Len(changes) : ChangeStep(c)

BackgroundSpec == BackgroundInit /\ [][BackgroundNext]_vars

(***************************************************************************)
(* Network monitoring in the background script.  Every request of a tab    *)
(* reaches the onBeforeRequest listener, which stores the URLs that        *)
(* isStreamingUrl accepts.  A tab requests its next playlist, one of its   *)
(* first two playlists again, or a video file.  insertions records each    *)
(* URL that Set.add actually adds (a URL already in the Set is not added). *)
(***************************************************************************)
StreamingUrlLimit == 100

MaxStreamRequests == 104

\* tab 1 loads enough playlists to pass the limit, tab 2 a few
TabBudget(t) == IF t = 1 THEN MaxStreamRequests ELSE MaxStreamRequests - StreamingUrlLimit

StreamUrl(n) == "https://cdn.example.com/hls/" \o ToString(n) \o ".m3u8"

isStreamingUrlBackground(url) ==
    IF ~Truthy(url) THEN FALSE
    ELSE IF Includes(url, ".m3u8") \/ Includes(url, "m3u8") THEN TRUE
    ELSE IF Includes(url, ".mpd") \/ Includes(url, "mpd") THEN TRUE
    ELSE IF Includes(url, ".ts") /\ (Includes(url, "segment") \/ Includes(url, "chunk"))
    THEN TRUE
    ELSE FALSE

\* a clean-up that keeps the first entries
storeStreamingUrlKeepsFirst(urls, url) ==
    LET added == IF \E i \in 1..Len(urls) : urls[i] = url THEN urls ELSE Append(urls, url)
    IN IF Len(added) > StreamingUrlLimit THEN SubSeq(added, 1, StreamingUrlLimit) ELSE added

\* the Set of the tab after storeStreamingUrl(url, tabId), urls being the
\* Set before
storeStreamingUrl(urls, url) ==
    LET added == IF \E i \in 1..Len(urls) : urls[i] = url THEN urls ELSE Append(urls, url)
    IN IF Len(added) > StreamingUrlLimit
       THEN SubSeq(added, Len(added) - StreamingUrlLimit + 1, Len(added))
       ELSE added

StreamRequests(t) ==
    {StreamUrl(Cardinality({insertions[t][i] : i \in 1..Len(insertions[t])}) + 1),
     StreamUrl(1), StreamUrl(2), UrlMp4}

OnBeforeRequest(t, url) ==
    /\ Len(insertions[t]) < TabBudget(t)
    /\ IF isStreamingUrlBackground(url)
       THEN /\ bgStreamingUrls' =
                 [bgStreamingUrls EXCEPT ![t] = storeStreamingUrl(@, url)]
            /\ insertions' =
                 IF \E i \in 1..Len(bgStreamingUrls[t]) : bgStreamingUrls[t][i] = url
                 THEN insertions
                 ELSE [insertions EXCEPT ![t] = Append(@, url)]
       ELSE UNCHANGED <<bgStreamingUrls, insertions>>
    /\ UNCHANGED <<contentVars, popupVars, bgMsgs, downloads, storageLocal, changes>>

StreamInit == Loaded({DocGeneric}, {Undefined}) /\ PopupClosed /\ BackgroundStarted

StreamNext == \E t \in Tabs : \E url \in StreamRequests(t) : OnBeforeRequest(t, url)

StreamSpec == StreamInit /\ [][StreamNext]_vars

(***************************************************************************)
(* Properties.                                                             *)
(***************************************************************************)
Finished(sc) == sc.pc \in {"returned", "done"}

\* the URL of a candidate: its url if present, otherwise its src
UrlOf(c) == IF Truthy(c.url) THEN c.url ELSE c.src

\* C1: the list a scan returns has no two candidates with the same URL
\* (url if present, else src), whichever strategies produced them.
C1_OneCandidatePerUrl ==
    \A s \in 1..Len(scans) :
        Finished(scans[s]) =>
            LET r == Returned(scans[s]) IN
            \A i, j \in 1..Len(r) : i < j => UrlOf(r[i]) # UrlOf(r[j])

\* C2: the list a scan returns is the concatenation of the candidates in
\* pipeline order with, for every distinct URL, only the first candidate
\* pushed for it kept (with its metadata), then filtered by validity: no
\* other candidate is dropped and the order is that of the concatenation.
C2_FirstOccurrenceWins ==
    \A s \in 1..Len(scans) :
        (Finished(scans[s]) /\ ~scans[s].threw) =>
            Returned(scans[s])
                = SelectSeq(removeDuplicatesByUrlOrSrc(scans[s].concat), isValidVideo)

IsFindVideos(m) == m <= Len(msgs) /\ msgs[m].action = "findVideos"

\* C3: sendResponse is called exactly once for every findVideos message:
\* never more than once, and eventually once, whether the scan succeeds or
\* throws.
C3_RespondsExactlyOnce ==
    /\ [](\A m \in 1..Len(msgs) : Len(msgs[m].responses) <= 1)
    /\ \A m \in 1..MaxMessages :
          IsFindVideos(m) ~> (IsFindVideos(m) /\ Len(msgs[m].responses) = 1)

\* a findVideos message whose scan threw has been answered, once
C3_Witness ==
    \E s \in 1..Len(scans) :
        /\ scans[s].msg # 0 /\ scans[s].threw /\ scans[s].pc = "done"
        /\ Len(msgs[scans[s].msg].responses) = 1

\* C4: the response to a findVideos request whose scan threw is
\* { videos: [], error: <message> }.
C4_FailureReportsError ==
    \A m \in 1..Len(msgs) :
        \A k \in 1..Len(msgs[m].responses) :
            LET r == msgs[m].responses[k] IN
            scans[r.scan].threw => (r.videos = <<>> /\ Truthy(r.error))

\* C5: a scan one of whose steps threw returns the empty list, never the
\* candidates pushed before the failure, and so does its response.
C5_NoPartialResult ==
    /\ \A s \in 1..Len(scans) :
          (Finished(scans[s]) /\ scans[s].threw) => Returned(scans[s]) = <<>>
    /\ \A m \in 1..Len(msgs) :
          \A k \in 1..Len(msgs[m].responses) :
              scans[msgs[m].responses[k].scan].threw
                  => msgs[m].responses[k].videos = <<>>

\* a message-triggered scan threw after candidates had been pushed, and has
\* been answered
C5_Witness ==
    \E s \in 1..Len(scans) :
        /\ scans[s].threw /\ scans[s].partial # <<>>
        /\ scans[s].msg # 0 /\ scans[s].pc = "done"

C7_WrappersObservational ==
    lastCall.prim # "none" =>
        /\ lastCall.origCalls = 1
        /\ lastCall.origReceiver = lastCall.receiver
        /\ lastCall.origArgs = lastCall.args
        /\ lastCall.returned
              = NativeResult(lastCall.prim, lastCall.receiver, lastCall.args)
        /\ \/ lastCall.after = lastCall.before
           \/ \E i \in Instances : \E k \in 1..Len(lastCall.args) :
                 lastCall.after
                     = [lastCall.before EXCEPT ![i] = Append(@, lastCall.args[k].v)]

\* the URL a wrapper of the primitive records for the call, if any
Recorded(call) ==
    IF call.prim = "xhr" THEN XhrRecorded(call.args) ELSE FetchRecorded(call.args)

\* C8: once content.js has been executed, however often, there is one
\* VideoDetector instance, one message listener and one wrapper around each
\* request primitive, and a streaming request is recorded once.
C8_InstalledOnce ==
    executions >= 1 =>
        /\ instances = 1
        /\ Len(listeners) = 1
        /\ Len(xhrOpen) = 1
        /\ Len(windowFetch) = 1
        /\ (lastCall.prim # "none" /\ lastCall.wrappers >= 1 /\ Recorded(lastCall) # <<>>)
              => lastCall.adds = 1

\* the script has been executed again and a streaming request made after
\* that was recorded once
C8_Witness ==
    /\ executions >= 2
    /\ lastCall.execs >= 2
    /\ Recorded(lastCall) # <<>>
    /\ lastCall.adds = 1

Members(seq) == {seq[i] : i \in 1..Len(seq)}

\* C9: no step removes a URL from the observed streaming URLs of an
\* instance.
C9_ObservedAppendOnly ==
    [][\A i \in Instances : Members(streamingUrls[i]) \subseteq Members(streamingUrls'[i])]_vars

\* a scan that started with observed URLs has finished, a further URL has
\* been observed, and all of them are still there
C9_Witness ==
    \E s \in 1..Len(scans) :
        /\ Finished(scans[s])
        /\ scans[s].obs0 # <<>>
        /\ Len(streamingUrls[scans[s].inst]) >= 2
        /\ Members(scans[s].obs0) \subseteq Members(streamingUrls[scans[s].inst])

\* C10: every URL observed when a scan starts and longer than 10 characters
\* is the url of a candidate of the list the scan returns.
C10_ObservedUrlsReturned ==
    \A s \in 1..Len(scans) :
        (Finished(scans[s]) /\ ~scans[s].threw) =>
            LET r == Returned(scans[s]) IN
            \A i \in 1..Len(scans[s].obs0) :
                Len(scans[s].obs0[i]) > 10
                    => \E j \in 1..Len(r) : r[j].url = scans[s].obs0[i]

\* the candidates of a list
Candidates(list) == {list[i] : i \in 1..Len(list)}

\* the scans that have returned without throwing
Completed == {s \in 1..Len(scans) : Finished(scans[s]) /\ ~scans[s].threw}

\* C11: every candidate of the list a scan returns carries a non-empty url,
\* whichever strategy pushed it (the popup reads video.url).
C11_EveryCandidateHasUrl ==
    \A s \in Completed :
        \A c \in Candidates(Returned(scans[s])) : Truthy(c.url)

\* C12: in the list a scan returns, a non-streaming candidate has a
\* non-empty URL (url, else src) of at least 20 characters and a streaming
\* candidate a non-empty url of more than 10 characters.
C12_LengthFloors ==
    \A s \in Completed :
        \A c \in Candidates(Returned(scans[s])) :
            IF c.isStreaming THEN Truthy(c.url) /\ Len(c.url) > 10
            ELSE Truthy(UrlOf(c)) /\ Len(UrlOf(c)) >= 20

\* a scan has returned after a candidate with a URL under the floor had
\* been pushed
C12_Witness ==
    \E s \in Completed :
        \E c \in Candidates(scans[s].concat) :
            /\ Truthy(UrlOf(c))
            /\ Len(UrlOf(c)) < (IF c.isStreaming THEN 11 ELSE 20)

\* C13: every candidate any strategy pushes with downloadable = false has
\* a non-empty reason.
C13_NonDownloadableHasReason ==
    /\ \A i \in Instances :
          \A c \in Candidates(videos[i]) : c.downloadable = "false" => Truthy(c.reason)
    /\ \A s \in 1..Len(scans) :
          \A c \in Candidates(scans[s].concat) \cup Candidates(Returned(scans[s])) :
              c.downloadable = "false" => Truthy(c.reason)

\* a candidate with downloadable = false has been pushed
C13_Witness ==
    \E i \in Instances : \E c \in Candidates(videos[i]) : c.downloadable = "false"

\* C14: on www.youtube.com with the player-data script that has no trailing
\* semicolon, the list a scan returns has a candidate with platform youtube,
\* format HLS and the manifest URL.
C14_YouTubeManifestWithoutSemicolon ==
    doc = DocYouTubeScript =>
        \A s \in Completed :
            \E c \in Candidates(Returned(scans[s])) :
                c.platform = "youtube" /\ c.format = "HLS" /\ c.url = UrlManifest

\* a scan of that page has returned
C14_Witness == doc = DocYouTubeScript /\ Completed # {}

\* C15: on a generic page one <video src=clip.mp4> gives exactly one
\* candidate, with format MP4, url the address of the element and
\* downloadable unset or true; with an address under 20 characters it
\* gives none.
C15_SingleDirectVideo ==
    /\ doc = DocSingleVideo =>
          \A s \in Completed :
              LET r == Returned(scans[s]) IN
              /\ Len(r) = 1
              /\ r[1].format = "MP4"
              /\ r[1].url = UrlMp4
              /\ r[1].downloadable \in {Undefined, "true"}
    /\ doc = DocSingleShort => \A s \in Completed : Returned(scans[s]) = <<>>

\* C16: on a TikTok page one <video> with a blob: address gives exactly one
\* candidate, of a type ending in _blob, with downloadable = false and a
\* non-empty reason and alternative.
C16_TikTokBlobVideo ==
    doc = DocTikTokBlob =>
        \A s \in Completed :
            LET r == Returned(scans[s]) IN
            /\ Len(r) = 1
            /\ EndsWith(r[1].type, "_blob")
            /\ r[1].downloadable = "false"
            /\ Truthy(r[1].reason)
            /\ Truthy(r[1].alternative)

\* a scan of that page has returned
C16_Witness == doc = DocTikTokBlob /\ Completed # {}

\* C17: isStreamingUrl is true of every URL that contains .m3u8 or .mpd and
\* false of every URL that contains neither of them, no /hls/, no /dash/ and
\* no segment marker (a .ts ending or segment-<digit>), in any letter case.
C17_StreamingMarkers ==
    (verdict.done /\ Truthy(probe)) =>
        LET l == ToLowerCase(probe) IN
        /\ (Includes(probe, ".m3u8") \/ Includes(probe, ".mpd")) => verdict.isStreamingUrl
        /\ (/\ ~Includes(l, ".m3u8") /\ ~Includes(l, ".mpd")
            /\ ~Includes(l, "/hls/") /\ ~Includes(l, "/dash/")
            /\ ~EndsWith(l, ".ts") /\ ~MatchesSegment(probe))
              => ~verdict.isStreamingUrl

\* C18: isStreamingUrl gives a URL and its lower-case form the same answer,
\* and is false of a missing or empty URL.
C18_StreamingCaseInsensitive ==
    verdict.done =>
        /\ verdict.isStreamingUrl = verdict.lowered
        /\ ~Truthy(probe) => ~verdict.isStreamingUrl

\* C19: isValidVideoUrl is false of every blob: and data: URL, whatever
\* extension or MIME text it contains, and no candidate of the direct,
\* nested-source and platform-selector passes has such a URL.
C19_BlobAndDataRejected ==
    (verdict.done /\ probe # Undefined) =>
        /\ (StartsWith(probe, "blob:") \/ StartsWith(probe, "data:"))
              => ~verdict.isValidVideoUrl
        /\ \A c \in Candidates(verdict.pushed) :
              ~StartsWith(UrlOf(c), "blob:") /\ ~StartsWith(UrlOf(c), "data:")

\* a blob: URL that contains a video extension has been classified
C19_Witness ==
    /\ verdict.done /\ probe # Undefined
    /\ StartsWith(probe, "blob:") /\ Includes(ToLowerCase(probe), ".mp4")

\* the extension and protocol markers of C20, in their fixed order
FormatMarkers ==
    << <<".mp4", "MP4">>, <<".webm", "WebM">>, <<".ogg", "OGG">>, <<".avi", "AVI">>,
       <<".mov", "MOV">>, <<".wmv", "WMV">>, <<".flv", "FLV">>, <<".mkv", "MKV">>,
       <<".m3u8", "HLS">>, <<".mpd", "DASH">>, <<".ts", "TS">> >>

\* the format C20 states for a URL
StatedFormat(url) ==
    LET l == ToLowerCase(url)
        hits == {k \in 1..Len(FormatMarkers) : Includes(l, FormatMarkers[k][1])}
    IN IF StartsWith(l, "blob:") THEN "Blob"
       ELSE IF hits = {} THEN "Unknown"
       ELSE FormatMarkers[CHOOSE k \in hits : \A k2 \in hits : k <= k2][2]

\* C20: getVideoFormat returns Blob for a URL of the blob scheme, Unknown
\* for a URL that has none of the markers, and otherwise the format of the
\* first marker of the fixed order that the URL contains.
C20_FormatOfUrl ==
    (verdict.done /\ Truthy(probe)) => verdict.getVideoFormat = StatedFormat(probe)

(***************************************************************************)
(* C21: removeDuplicates applied to its own result returns that result,    *)
(* for every list of candidates, and the deduplication followed by the     *)
(* validity filter, applied to the list they returned, returns it          *)
(* unchanged.                                                              *)
(***************************************************************************)
C21_DedupIdempotent ==
    verdict.runs = 2 =>
        /\ verdict.dedupedAgain = verdict.deduped
        /\ verdict.returnedAgain = verdict.returned

\* a list of MaxList candidates, of which the deduplication dropped one and
\* the filter another, has been through both passes
C21_Witness ==
    /\ verdict.runs = 2
    /\ Len(probe) = MaxList
    /\ Len(verdict.deduped) < Len(probe)
    /\ Len(verdict.returned) < Len(verdict.deduped)

(***************************************************************************)
(* C22: on a YouTube page a script whose player data is malformed,         *)
(* truncated or absent is skipped: the scan does not fail because of it,   *)
(* the scripts after it are still processed by findYouTubeStreamingUrls    *)
(* (the manifest of a later script is pushed), and the candidates of the   *)
(* other strategies are still returned.                                    *)
(***************************************************************************)
C22_MalformedPlayerDataSkipped ==
    doc = DocYouTubeMalformed =>
        /\ thrown = 0 => \A s \in 1..Len(scans) : ~scans[s].threw
        /\ \A s \in Completed :
              /\ YouTubeScriptOutcome(doc, doc.scripts[1]).caught
              /\ \E c \in Candidates(scans[s].concat) :
                    c.platform = "youtube" /\ c.format = "HLS" /\ c.url = UrlPlayback
              /\ \E c \in Candidates(Returned(scans[s])) :
                    c.type = "direct" /\ c.src = UrlMp4

\* a scan of the page with the malformed script has returned its list
C22_Witness ==
    /\ doc = DocYouTubeMalformed
    /\ \E s \in Completed : scans[s].msg # 0 /\ Len(Returned(scans[s])) = 2

(***************************************************************************)
(* C24: on every platform detectPlatform can return, generic included, the *)
(* scan runs the blob detection: every media element with a blob address   *)
(* gives a candidate with downloadable false in the returned list.         *)
(***************************************************************************)
C24_BlobDetectedOnEveryPlatform ==
    \A s \in Completed :
        \A i \in 1..Len(doc.videos) :
            StartsWith(doc.videos[i].src, "blob:") =>
                \E c \in Candidates(Returned(scans[s])) :
                    c.url = doc.videos[i].src /\ c.downloadable = "false"

(***************************************************************************)
(* C25: the title of every candidate a scan returns is sanitized: it has   *)
(* none of the characters < > : " / \ | ? *, no two consecutive whitespace *)
(* characters, no whitespace at either end, and at most 100 characters,    *)
(* whichever strategy pushed the candidate.                                *)
(***************************************************************************)
IsSanitized(t) ==
    /\ t # Undefined
    /\ Len(t) <= 100
    /\ \A k \in 1..Len(t) : SubSeq(t, k, k) \notin InvalidFilenameChars
    /\ \A k \in 1..(Len(t) - 1) :
          ~(SubSeq(t, k, k) \in Whitespace /\ SubSeq(t, k + 1, k + 1) \in Whitespace)
    /\ Len(t) > 0 => SubSeq(t, 1, 1) \notin Whitespace
                        /\ SubSeq(t, Len(t), Len(t)) \notin Whitespace

C25_TitlesSanitized ==
    \A s \in Completed :
        \A c \in Candidates(Returned(scans[s])) : IsSanitized(c.title)

(***************************************************************************)
(* C23: for a candidate with downloadable false, or with a blob: url, the  *)
(* popup renders an info button and no download button, and sends no       *)
(* downloadVideo or downloadStreaming message for it; for every other      *)
(* candidate of the response it renders a download button.                 *)
(***************************************************************************)
C23_ButtonFollowsDownloadable ==
    shown \in {"videos-list", "error"} =>
        \A i \in 1..Len(popupVideos) :
            LET video == popupVideos[i] IN
            IF \/ video.downloadable = "false"
               \/ Truthy(video.url) /\ StartsWith(video.url, "blob:")
            THEN /\ i <= Len(items) /\ items[i].button = "info"
                 /\ \A k \in 1..Len(sent) : sent[k].index # i
            ELSE i <= Len(items) /\ items[i].button = "download"

(***************************************************************************)
(* C27: sendMessageWithRetry(tabId, message, maxRetries) makes at most     *)
(* maxRetries attempts, makes an attempt only after every earlier one has  *)
(* failed, returns the response of the first attempt that succeeds without *)
(* sending again, and throws, returning no response, when all maxRetries   *)
(* attempts have failed.                                                   *)
(***************************************************************************)
Sends == Len(retry.outcomes) + (IF retry.pc = "sending" THEN 1 ELSE 0)

C27_RetryBounded ==
    /\ Sends <= retry.maxRetries
    /\ \A k \in 1..(Sends - 1) : retry.outcomes[k] = "failed"
    /\ retry.pc = "returned" =>
          /\ retry.outcomes[Len(retry.outcomes)] = "ok"
          /\ retry.response = ScanResponse
    /\ (Len(retry.outcomes) = retry.maxRetries
            /\ \A k \in 1..Len(retry.outcomes) : retry.outcomes[k] = "failed")
          => retry.pc = "threw" /\ ~retry.response.received
    /\ retry.pc = "threw" => Len(retry.outcomes) = retry.maxRetries

\* all MaxRetries attempts of a call have failed
C27_Witness ==
    /\ retry.maxRetries = MaxRetries
    /\ Len(retry.outcomes) = MaxRetries
    /\ retry.outcomes[MaxRetries] = "failed"

(***************************************************************************)
(* C26: for every download started by downloadVideo, once its state has    *)
(* changed to complete or interrupted the record download_<id> is          *)
(* eventually absent from chrome.storage.local and stays absent, in every  *)
(* interleaving.  Stated for the states in which downloadVideo has         *)
(* returned and the handler of the state change has ended, after which no  *)
(* step of the script touches the record.                                  *)
(***************************************************************************)
C26_RecordRemovedAfterEnd ==
    \A m \in 1..Len(bgMsgs) :
        (/\ ~bgMsgs[m].playlist /\ bgMsgs[m].id # 0
         /\ bgMsgs[m].pc = "done"
         /\ \E c \in 1..Len(changes) :
               changes[c].id = bgMsgs[m].id /\ changes[c].pc = "done")
            => bgMsgs[m].id \notin storageLocal

Passes(msg) == isValidUrl(msg.url) /\ ~StartsWith(msg.url, "blob:") /\ msg.accessible = "yes"

C29_DownloadOnlyAfterChecks ==
    \A m \in 1..Len(bgMsgs) :
        LET msg == bgMsgs[m] IN
        (msg.action \in {"downloadVideo", "downloadStreaming"} /\ ~msg.playlist) =>
            /\ (msg.called \/ msg.id # 0) => Passes(msg)
            /\ (msg.pc = "done" /\ ~Passes(msg)) =>
                  /\ msg.threw /\ ~msg.called /\ msg.id = 0
                  /\ \A id \in storageLocal : downloads[id].by # m
                  /\ Len(msg.responses) = 1 /\ ~msg.responses[1].success

\* a request for a blob: URL has been refused and a request for a video
\* file has started a download
C29_Witness ==
    /\ \E m \in 1..Len(bgMsgs) :
          bgMsgs[m].url = UrlBlob /\ bgMsgs[m].pc = "done" /\ bgMsgs[m].threw
    /\ \E m \in 1..Len(bgMsgs) :
          bgMsgs[m].action = "downloadVideo" /\ bgMsgs[m].id # 0

(***************************************************************************)
(* C30: after any sequence of storeStreamingUrl calls the Set of each tab  *)
(* holds at most 100 URLs, and they are the 100 most recently inserted     *)
(* distinct URLs (all of them while fewer than 100 were inserted), oldest  *)
(* first: a URL is kept iff fewer than 100 distinct URLs were inserted     *)
(* after its last insertion.                                               *)
(***************************************************************************)
LastInsertion(t, url) ==
    CHOOSE i \in 1..Len(insertions[t]) :
        /\ insertions[t][i] = url
        /\ \A j \in (i + 1)..Len(insertions[t]) : insertions[t][j] # url

InsertedAfter(t, i) == {insertions[t][j] : j \in (i + 1)..Len(insertions[t])}

C30_KeepsLastHundred ==
    \A t \in Tabs :
        LET urls == bgStreamingUrls[t]
            kept == {urls[i] : i \in 1..Len(urls)}
            inserted == {insertions[t][i] : i \in 1..Len(insertions[t])}
        IN /\ Len(urls) <= StreamingUrlLimit
           /\ Cardinality(kept) = Len(urls)
           /\ kept = {u \in inserted :
                        Cardinality(InsertedAfter(t, LastInsertion(t, u))) < StreamingUrlLimit}
           /\ \A a \in 1..(Len(urls) - 1) :
                 LastInsertion(t, urls[a]) < LastInsertion(t, urls[a + 1])

\* the Set of a tab has passed the limit, its first URL was dropped,
\* requested again and is kept
C30_Witness ==
    \E t \in Tabs :
        /\ Len(insertions[t]) > StreamingUrlLimit + 1
        /\ Len(bgStreamingUrls[t]) = StreamingUrlLimit
        /\ bgStreamingUrls[t][StreamingUrlLimit] = StreamUrl(1)
        /\ \A i \in 1..Len(bgStreamingUrls[t]) : bgStreamingUrls[t][i] # StreamUrl(2)

====
